---- MODULE Spec2Model ----
(***************************************************************************)
(* Execution core of serverB: the ENTRY_SIGNAL / EXIT_SIGNAL handlers, the  *)
(* pending-order monitor and the ORDER_FILLED handler of execution.py,     *)
(* the PositionManager of position_manager.py, the risk gate of risk.py    *)
(* and the event bus of event_bus.py.                                      *)
(*                                                                         *)
(* The specifications share the variables:                                 *)
(*   Spec       handler threads dispatched by event_bus.publish, running   *)
(*              against the advisory locks, _exec_lock, the position       *)
(*              registry, the trades table and _pending_orders;            *)
(*   SpecSim    the same handlers with SIMULATE = true and the market      *)
(*              closed throughout (the setting of the concurrency tests);  *)
(*   SpecGate   ENTRY_SIGNAL handlers whose risk check may fail;           *)
(*   SpecLive   live ENTRY_SIGNAL handlers and every shape of the broker's *)
(*              answer;                                                    *)
(*   SpecStore  direct calls of PositionManager's methods;                 *)
(*   SpecRisk   check_risk applied to enumerated inputs;                   *)
(*   SpecMon    the handlers, the monitor thread and the clock, with a     *)
(*              trades INSERT that may fail;                               *)
(*   SpecTimed  pending entries, the monitor and the clock under the       *)
(*              fairness of the monitor thread's loop;                     *)
(*   SpecFilled ORDER_FILLED delivered on every pending table;             *)
(*   SpecBus    subscribe, unsubscribe, publish and the handler threads;   *)
(*   SpecClock  is_market_open() at instants round the week;               *)
(*   SpecExit   EXIT_SIGNAL handlers for a position a live entry opened;   *)
(*   SpecSide   ENTRY_SIGNAL handlers given a side Position() refuses;     *)
(*   SpecLocks  the handler and monitor threads seen through the locks     *)
(*              they take, under fair scheduling.                          *)
(***************************************************************************)
EXTENDS Integers, Sequences, FiniteSets, TLC

VARIABLES
    SIMULATE,        \* execution.py:41, fixed at import
    credentials,     \* DHAN_CLIENT_ID and DHAN_ACCESS_TOKEN both set (execution.py:35-36)
    initial_stoploss,\* config['initial_stoploss'] (execution.py:338)
    order_timeout_seconds, \* config['order_timeout_seconds'] (execution.py:59)
    mon,             \* the pending-order-monitor thread: position, snapshot, sleep left
    market_open,     \* what is_market_open() returns now
    pc,              \* position of each handler thread
    payload,         \* payload each handler thread was dispatched with
    approved,        \* how the risk check of the handler ended (execution.py:227-249)
    held_key,        \* lock key for which the thread's try-acquire returned true
    res,             \* broker response kept by a live entry handler
    snap,            \* list_positions() entry picked by the security_id fallback
    adv_lock,        \* pg advisory locks: key -> database session holding it
    exec_owner,      \* thread inside `with _exec_lock` (0: nobody)
    positions,       \* default_manager._positions
    trades,          \* rows of the trades table, in id order
    pending_orders,  \* _pending_orders
    published,       \* ORDER_PLACED / ORDER_FILLED events published, in order
    filled_inflight, \* ORDER_FILLED deliveries dispatched and not yet run, per pos_id
    broker_calls,    \* place_order calls made at the broker, in order
    last_call,       \* SpecStore: the last PositionManager call, its arguments and result
    risk_in,         \* SpecRisk: the arguments and bot_state of the call
    risk_ret,        \* SpecRisk: what check_risk returned
    clock_call,      \* SpecClock: the instant of an is_market_open() call and its answer
    lock_run,        \* SpecLocks: what each thread has still to do with the locks,
                     \* and who holds _exec_lock, the registry lock and the bus lock
    delivered,       \* SpecFilled: the ORDER_FILLED payload last delivered and the
                     \* table before and after its first delivery
    subscribers,     \* SpecBus: event_bus._subscribers[event], in subscription order
    pub,             \* SpecBus: the thread inside event_bus.publish
    threads          \* SpecBus: the threads publish started, in start order

vars == <<SIMULATE, credentials, initial_stoploss, market_open, pc, payload,
          approved, held_key, res, snap, adv_lock, exec_owner, positions, trades,
          pending_orders, published, filled_inflight, broker_calls,
          last_call, risk_in, risk_ret, clock_call, lock_run, order_timeout_seconds, mon,
          delivered, subscribers, pub, threads>>

handlerVars == <<SIMULATE, credentials, initial_stoploss, market_open, pc, payload,
                 approved, held_key, res, snap, adv_lock, exec_owner, trades,
                 pending_orders, published, filled_inflight, broker_calls,
                 order_timeout_seconds, mon, delivered, subscribers, pub, threads,
                 lock_run>>

----------------------------------------------------------------------------
(* Bounds *)

NumHandlers == 2          \* handler threads dispatched in one run

(* Program constants: the defaults of risk.py *)
MAX_POSITION == 200
MAX_DAILY_LOSS == 5000
MAX_TRADES_PER_DAY == 20
BASE_QTY == 50

None == "None"
Handlers == 1..NumHandlers
PosIds == {"P1", "P2"}
Symbols == {"NIFTY", "BANKNIFTY"}

----------------------------------------------------------------------------
(* position_manager.py *)

\* str.upper() on the side strings the model uses
Upper(s) == CASE s = "buy" -> "BUY"
              [] s = "sell" -> "SELL"
              [] OTHER -> s

\* Position.__init__ raises ValueError for a side that is not BUY/SELL
ValidSide(side) == Upper(side) \in {"BUY", "SELL"}

\* Position.__init__: the fields of a fresh Position. exit_price 0 with
\* closed = FALSE stands for exit_price None / closed_ts None.
Position(symbol, side, quantity, entry_price, security_id) ==
    [symbol |-> symbol, side |-> Upper(side), quantity |-> quantity,
     entry_price |-> entry_price, security_id |-> security_id,
     exit_price |-> 0, closed |-> FALSE, pnl |-> 0, status |-> "OPEN"]

NoPosition == [symbol |-> None, side |-> None, quantity |-> 0,
               entry_price |-> 0, security_id |-> None,
               exit_price |-> 0, closed |-> FALSE, pnl |-> 0, status |-> None]

\* what a PositionManager call gives back: kind is "position", "none" (null)
\* or "ValueError" (raised)
Ret(kind, p) == [kind |-> kind, pos |-> p]

Remove(f, k) == [x \in DOMAIN f \ {k} |-> f[x]]
Put(f, k, v) == [x \in DOMAIN f \cup {k} |-> IF x = k THEN v ELSE f[x]]

\* an open_position without the single-position guard of lines 53-55
open_position_no_single_guard(ps, pos_id, symbol, side, quantity, entry_price, security_id) ==
    IF \E q \in DOMAIN ps : ps[q].symbol = symbol
    THEN [store |-> ps, ret |-> Ret("none", NoPosition)]
    ELSE IF ~ValidSide(side)
    THEN [store |-> ps, ret |-> Ret("ValueError", NoPosition)]
    ELSE LET p == Position(symbol, side, quantity, entry_price, security_id)
         IN [store |-> Put(ps, pos_id, p), ret |-> Ret("position", p)]

\* an open_position that hands quantity and entry_price to Position() in
\* the wrong order
open_position_swapped_args(ps, pos_id, symbol, side, quantity, entry_price, security_id) ==
    IF DOMAIN ps # {}
    THEN [store |-> ps, ret |-> Ret("none", NoPosition)]
    ELSE IF ~ValidSide(side)
    THEN [store |-> ps, ret |-> Ret("ValueError", NoPosition)]
    ELSE LET p == Position(symbol, side, entry_price, quantity, security_id)
         IN [store |-> Put(ps, pos_id, p), ret |-> Ret("position", p)]

\* PositionManager.open_position: [store, ret]
open_position(ps, pos_id, symbol, side, quantity, entry_price, security_id) ==
    IF DOMAIN ps # {}
    THEN [store |-> ps, ret |-> Ret("none", NoPosition)]
    ELSE IF \E q \in DOMAIN ps : ps[q].symbol = symbol
    THEN [store |-> ps, ret |-> Ret("none", NoPosition)]
    ELSE IF ~ValidSide(side)
    THEN [store |-> ps, ret |-> Ret("ValueError", NoPosition)]
    ELSE LET p == Position(symbol, side, quantity, entry_price, security_id)
         IN [store |-> Put(ps, pos_id, p), ret |-> Ret("position", p)]

\* a _compute_pnl with the BUY formula applied to SELL as well
compute_pnl_buy_only(p) ==
    IF ~p.closed THEN p.pnl
    ELSE (p.exit_price - p.entry_price) * p.quantity

\* PositionManager._compute_pnl
compute_pnl(p) ==
    IF ~p.closed THEN p.pnl
    ELSE IF Upper(p.side) = "BUY"
    THEN (p.exit_price - p.entry_price) * p.quantity
    ELSE (p.entry_price - p.exit_price) * p.quantity

\* PositionManager.close_position: [store, ret]
close_position(ps, pos_id, exit_price) ==
    IF pos_id \notin DOMAIN ps
    THEN [store |-> ps, ret |-> Ret("none", NoPosition)]
    ELSE LET p1 == [ps[pos_id] EXCEPT !.exit_price = exit_price, !.closed = TRUE]
             p2 == [p1 EXCEPT !.pnl = compute_pnl(p1), !.status = "CLOSED"]
         IN [store |-> Remove(ps, pos_id), ret |-> Ret("position", p2)]

\* PositionManager.update_market_price: [store, ret]
update_market_price(ps, pos_id, market_price) ==
    IF pos_id \notin DOMAIN ps
    THEN [store |-> ps, ret |-> Ret("none", NoPosition)]
    ELSE IF ps[pos_id].closed
    THEN [store |-> ps, ret |-> Ret("position", ps[pos_id])]
    ELSE LET p == ps[pos_id]
             u == IF Upper(p.side) = "BUY"
                  THEN (market_price - p.entry_price) * p.quantity
                  ELSE (p.entry_price - market_price) * p.quantity
             p2 == [p EXCEPT !.pnl = u]
         IN [store |-> Put(ps, pos_id, p2), ret |-> Ret("position", p2)]

----------------------------------------------------------------------------
(* risk.py *)

\* payload.get('confidence_score'): absent, or a number given in quarters
\* (quarters = 2 is 0.5), for which BASE_QTY * conf is exact in binary floats
NoConfidence == [present |-> FALSE, quarters |-> 0]
Confidence(n) == [present |-> TRUE, quarters |-> n]

\* int(x) truncates towards zero
TruncDiv(a, b) == IF a >= 0 THEN a \div b ELSE -((-a) \div b)

Abs(x) == IF x < 0 THEN -x ELSE x
Max(a, b) == IF a >= b THEN a ELSE b

RECURSIVE NetQty(_, _)
\* the loop of _projected_net_qty_after over list_positions().values()
NetQty(ps, ids) ==
    IF ids = {} THEN 0
    ELSE LET k == CHOOSE x \in ids : TRUE
             q == IF ps[k].side = "BUY" THEN ps[k].quantity ELSE -ps[k].quantity
         IN q + NetQty(ps, ids \ {k})

\* risk._projected_net_qty_after
projected_net_qty_after(ps, side, qty) ==
    IF Upper(side) = "BUY" THEN NetQty(ps, DOMAIN ps) + qty
    ELSE NetQty(ps, DOMAIN ps) - qty

\* the sizing step of check_risk (lines 40-49)
sized_qty(requested_qty, confidence) ==
    IF confidence.present
    THEN Max(1, TruncDiv(BASE_QTY * confidence.quarters, 4))
    ELSE requested_qty

\* a check_risk whose exposure test is >= instead of > and whose trade
\* count test is > instead of >=
check_risk_off_by_one(side, requested_qty, confidence, daily_pnl, trade_count, ps) ==
    LET qty == sized_qty(requested_qty, confidence)
    IN IF daily_pnl <= -Abs(MAX_DAILY_LOSS) THEN <<FALSE, qty>>
       ELSE IF trade_count > MAX_TRADES_PER_DAY THEN <<FALSE, qty>>
       ELSE IF Abs(projected_net_qty_after(ps, side, qty)) >= MAX_POSITION
       THEN <<FALSE, qty>>
       ELSE <<TRUE, qty>>

\* risk.check_risk: <<approved, qty_to_use>>
check_risk(side, requested_qty, confidence, daily_pnl, trade_count, ps) ==
    LET qty == sized_qty(requested_qty, confidence)
    IN IF daily_pnl <= -Abs(MAX_DAILY_LOSS) THEN <<FALSE, qty>>
       ELSE IF trade_count >= MAX_TRADES_PER_DAY THEN <<FALSE, qty>>
       ELSE IF Abs(projected_net_qty_after(ps, side, qty)) > MAX_POSITION
       THEN <<FALSE, qty>>
       ELSE <<TRUE, qty>>

----------------------------------------------------------------------------
(* execution.py: helpers *)

SecIds == {"S1", "S2"}
SecOf(pos_id) == IF pos_id = "P1" THEN "S1" ELSE "S2"

EntrySides == {"BUY", "SELL"}
EntryQtys == {0, 1, 200}
EntryPrice == 100
ExitPrice == 50

\* bot_state['daily_pnl'] and bot_state['daily_trade_count'] as the risk
\* check of a handler may find them
DailyPnls == {0, -5000}
TradeCounts == {0, 20}

\* int_quantity: int(payload.get('quantity') or 0) of lines 229 and 253
\* accepts the quantity the payload carries (a number, not e.g. "abc")
NoPayload == [kind |-> "none", pos_id |-> None, symbol |-> None, side |-> None,
              quantity |-> 0, price |-> 0, security_id |-> None, int_quantity |-> TRUE]

EntryPayloads ==
    {[kind |-> "ENTRY_SIGNAL", pos_id |-> p, symbol |-> "NIFTY", side |-> s,
      quantity |-> q, price |-> EntryPrice, security_id |-> SecOf(p),
      int_quantity |-> TRUE] :
        p \in PosIds, s \in EntrySides, q \in EntryQtys}

\* ENTRY_SIGNAL payloads whose quantity int() raises on; the quantity field
\* of the record is then never read
BadQuantityPayloads ==
    {[kind |-> "ENTRY_SIGNAL", pos_id |-> p, symbol |-> "NIFTY", side |-> "BUY",
      quantity |-> 0, price |-> EntryPrice, security_id |-> SecOf(p),
      int_quantity |-> FALSE] : p \in PosIds}

\* an EXIT_SIGNAL carries pos_id and the security id of that position, or
\* a security id alone
ExitPayloads ==
    {[kind |-> "EXIT_SIGNAL", pos_id |-> p, symbol |-> None, side |-> None,
      quantity |-> 0, price |-> ExitPrice, security_id |-> SecOf(p),
      int_quantity |-> TRUE] : p \in PosIds}
    \cup
    {[kind |-> "EXIT_SIGNAL", pos_id |-> None, symbol |-> None, side |-> None,
      quantity |-> 0, price |-> ExitPrice, security_id |-> s,
      int_quantity |-> TRUE] : s \in SecIds}

\* a database session is the connection one get_conn() call opened: the
\* function that opened it and the thread that ran it
Session(fn, t) == <<fn, t>>
NoSession == <<"none", 0>>

\* SELECT pg_try_advisory_lock(key) run on `session`: [locks, ok]
pg_try_advisory_lock(locks, session, key) ==
    IF locks[key] = NoSession \/ locks[key] = session
    THEN [locks |-> [locks EXCEPT ![key] = session], ok |-> TRUE]
    ELSE [locks |-> locks, ok |-> FALSE]

\* SELECT pg_advisory_unlock(key) run on `session`: only the session that
\* holds the lock releases it
pg_advisory_unlock(locks, session, key) ==
    IF locks[key] = session THEN [locks EXCEPT ![key] = NoSession] ELSE locks

\* _acquire_advisory_lock: a connection of its own (get_conn, line 189)
acquire_advisory_lock(locks, t, key) ==
    pg_try_advisory_lock(locks, Session("acquire", t), key)

\* _release_advisory_lock: another connection of its own (get_conn, line 201)
release_advisory_lock(locks, t, key) ==
    pg_advisory_unlock(locks, Session("release", t), key)

\* record_trade: INSERT ... RETURNING id
record_trade(tr, side, quantity, price, status, pos_id) ==
    Append(tr, [id |-> Len(tr) + 1, side |-> side, quantity |-> quantity,
                price |-> price, status |-> status, pos_id |-> pos_id])

\* record_trade returns None when the insert fails (line 174)
NoId == 0

\* record_trade when the database may be down: lines 172-174 log the error
\* and no row is written
record_trade_db(ok, tr, side, quantity, price, status, pos_id) ==
    IF ok THEN record_trade(tr, side, quantity, price, status, pos_id) ELSE tr

\* the id record_trade returns
returned_id(ok, tr) == IF ok THEN Len(tr) + 1 ELSE NoId

Event(topic, pos_id, status) == [topic |-> topic, pos_id |-> pos_id, status |-> status]

\* a _pending_orders entry; age is utcnow() - placed_ts in seconds, 0 when
\* the entry is written
PendingOrder(db_id, qty, side, price, broker_info, simulated) ==
    [db_id |-> db_id, qty |-> qty, side |-> side, price |-> price,
     broker_info |-> broker_info, simulated |-> simulated, age |-> 0]

BrokerCall(pos_id, order_type, side, quantity) ==
    [pos_id |-> pos_id, order_type |-> order_type, side |-> side, quantity |-> quantity]

\* what place_order does: raises, or answers with a status that is
\* rejected/failed, one that reports the fill, or any other (order open)
BrokerResponses == {"raise", "rejected", "open", "filled"}

\* more answers of place_order, by name: other spellings of the status and
\* answers that carry a filled quantity and/or an average price
LiveResponses ==
    BrokerResponses \cup {"FAILED", "COMPLETE", "filled_with_trade", "TRADED",
                          "open_qty_price", "open_qty", "open_price", "qty_price"}

\* the dict place_order answered with, as lines 312 and 326-330 read it:
\* status is res.get('status') ("" when there is none), filled_quantity the
\* value of res.get('filled_quantity') or res.get('filledQty') or
\* res.get('filled_qty'), avg_price that of res.get('avg_price') or
\* res.get('filled_price') or res.get('avgPrice'); 0 when the key is
\* missing or its value is zero
Answer(status, filled_quantity, avg_price) ==
    [status |-> status, filled_quantity |-> filled_quantity, avg_price |-> avg_price]

Response(resp) ==
    CASE resp = "open_qty_price" -> Answer("open", 1, EntryPrice)
      [] resp = "open_qty" -> Answer("open", 1, 0)
      [] resp = "open_price" -> Answer("open", 0, EntryPrice)
      [] resp = "qty_price" -> Answer("", 1, EntryPrice)
      [] OTHER -> Answer(resp, 0, 0)

\* str.lower() on the status strings the model uses
Lower(s) == CASE s = "FAILED" -> "failed"
              [] s = "COMPLETE" -> "complete"
              [] s = "TRADED" -> "traded"
              [] OTHER -> s

\* line 312: the broker refused the order
rejected_response(resp) == Lower(Response(resp).status) \in {"rejected", "failed"}

\* a fill detection that looks at the status alone
immediate_fill_status_only(resp) ==
    LET r == Response(resp)
    IN r.status # "" /\ Lower(r.status) \in {"filled", "complete", "filled_with_trade"}

\* lines 323-332: `filled or (filled_qty and filled_price)`
immediate_fill(resp) ==
    LET r == Response(resp)
        filled == r.status # "" /\ Lower(r.status) \in {"filled", "complete", "filled_with_trade"}
    IN filled \/ (r.filled_quantity # 0 /\ r.avg_price # 0)

Reverse(side) == IF Upper(side) = "BUY" THEN "SELL" ELSE "BUY"

NoSnap == [pid |-> None, side |-> None, quantity |-> 0]

Goto(t, label) == pc' = [pc EXCEPT ![t] = label]

\* config.get('order_timeout_seconds', 30)
DefaultTimeout == 30

\* nobody is inside publish
NoPublish == [pc |-> "idle", no |-> 0, subs |-> <<>>, i |-> 0, payload |-> None]

\* no ORDER_FILLED delivered yet
NoDelivery ==
    [payload |-> [pos_id |-> None, trade_id |-> None, db_id |-> None],
     before |-> <<>>, once |-> <<>>, count |-> 0]

\* the monitor thread as _start_pending_monitor leaves it: about to scan
\* (a sleep with no time left)
MonStart == [pc |-> "m_sleep", todo |-> <<>>, key |-> None,
             meta |-> PendingOrder(NoId, 0, None, 0, None, FALSE),
             cancel |-> None, sleep |-> 0]

----------------------------------------------------------------------------
(* event_bus.publish and the ENTRY_SIGNAL handler *)

cfgVars == <<SIMULATE, credentials, initial_stoploss>>
monVars == <<order_timeout_seconds, mon>>
busVars == <<subscribers, pub, threads>>

auxVars == <<last_call, risk_in, risk_ret, clock_call, lock_run, monVars, delivered, busVars>>

\* event_bus.publish: a fresh thread runs the subscribed handler on the
\* payload. Threads are taken in index order.
Publish(t, pl) ==
    /\ pc[t] = "idle"
    /\ \A u \in Handlers : u < t => pc[u] # "idle"
    /\ payload' = [payload EXCEPT ![t] = pl]
    /\ Goto(t, IF pl.kind = "ENTRY_SIGNAL" THEN "e_acquire" ELSE "x_acquire")
    /\ UNCHANGED <<cfgVars, auxVars, market_open, approved, held_key, res, snap, adv_lock,
                   exec_owner, positions, trades, pending_orders, published,
                   filled_inflight, broker_calls>>

\* _handle_entry_signal, lines 213-223
EntryAcquire(t) ==
    /\ pc[t] = "e_acquire"
    /\ LET key == payload[t].pos_id
           r == acquire_advisory_lock(adv_lock, t, key)
       IN /\ adv_lock' = r.locks
          /\ IF r.ok
             THEN /\ held_key' = [held_key EXCEPT ![t] = key]
                  /\ Goto(t, "e_risk")
             ELSE /\ UNCHANGED held_key
                  /\ Goto(t, "done")
    /\ UNCHANGED <<cfgVars, auxVars, market_open, approved, payload, res, snap,
                   exec_owner, positions, trades, pending_orders, published,
                   filled_inflight, broker_calls>>

\* the connection _acquire_advisory_lock opened is never closed by the
\* program; once the function has returned nothing refers to it, and the
\* server drops the session's locks when the connection goes away
ConnectionClosed(key) ==
    /\ adv_lock[key] # NoSession
    /\ adv_lock' = [adv_lock EXCEPT ![key] = NoSession]
    /\ UNCHANGED <<cfgVars, auxVars, market_open, approved, pc, payload, held_key, res, snap,
                   exec_owner, positions, trades, pending_orders, published,
                   filled_inflight, broker_calls>>

\* a handler that goes on to place the order whatever check_risk answered
after_risk_ignores_rejection(ok) == "e_exec"

\* lines 231-233: `if not approved: return` leaves through the finally
after_risk(ok) == IF ok THEN "e_exec" ELSE "e_release"

\* a check_risk that approves the requested quantity when its body raises
check_risk_fails_open(fault, side, requested_qty, confidence, daily_pnl, trade_count, ps) ==
    IF fault THEN <<TRUE, requested_qty>>
    ELSE check_risk(side, requested_qty, confidence, daily_pnl, trade_count, ps)

\* check_risk with its try/except (risk.py lines 38 and 72-74): when
\* anything in the body raises, the answer is (False, requested_qty)
check_risk_guarded(fault, side, requested_qty, confidence, daily_pnl, trade_count, ps) ==
    IF fault THEN <<FALSE, requested_qty>>
    ELSE check_risk(side, requested_qty, confidence, daily_pnl, trade_count, ps)

\* config.get('daily_max_loss', 0) as the fallback guard may find it
ConfigDailyMaxLoss == {0, 5000}

\* lines 240-249, the local guard of the except branch: the entry is blocked
\* when the daily-max-loss flag is set or the day's loss reached the limit
local_guard_blocks(triggered, daily_pnl, daily_max_loss) ==
    \/ triggered
    \/ daily_max_loss # 0 /\ daily_pnl <= -Abs(daily_max_loss)

\* _handle_entry_signal, lines 226-249: check_risk on the current registry
\* and bot_state; an approved positive size replaces payload['quantity'].
\* int() of line 229 raises on a quantity it does not accept: the except
\* branch runs the local guard and the handler goes on when it passes.
\* approved: "approved"/"rejected" is check_risk's answer, "error" its answer
\* after an internal failure, "raised" the handler's except branch.
EntryRiskOn(t, daily_pnls, trade_counts, faults) ==
    /\ pc[t] = "e_risk"
    /\ LET pl == payload[t]
       IN IF ~pl.int_quantity
          THEN \E triggered \in BOOLEAN, dp \in daily_pnls, dml \in ConfigDailyMaxLoss :
                 /\ approved' = [approved EXCEPT ![t] = "raised"]
                 /\ UNCHANGED payload
                 /\ Goto(t, IF local_guard_blocks(triggered, dp, dml)
                            THEN "e_release" ELSE "e_exec")
          ELSE \E dp \in daily_pnls, tc \in trade_counts, fault \in faults :
                 LET r == check_risk_guarded(fault, pl.side, pl.quantity, NoConfidence,
                                             dp, tc, positions)
                 IN /\ approved' = [approved EXCEPT ![t] =
                           IF fault THEN "error"
                           ELSE IF r[1] THEN "approved" ELSE "rejected"]
                    /\ payload' = [payload EXCEPT ![t].quantity =
                                      IF r[1] /\ r[2] > 0 THEN r[2] ELSE pl.quantity]
                    /\ Goto(t, after_risk(r[1]))
    /\ UNCHANGED <<cfgVars, auxVars, market_open, held_key, res, snap, adv_lock,
                   exec_owner, positions, trades, pending_orders, published,
                   filled_inflight, broker_calls>>

\* the risk step when check_risk's body does not fail
EntryRiskWith(t, daily_pnls, trade_counts) ==
    EntryRiskOn(t, daily_pnls, trade_counts, {FALSE})

EntryRisk(t) == EntryRiskWith(t, DailyPnls, TradeCounts)

\* a `with _exec_lock` that does not exclude other threads
exec_lock_free_unguarded(owner) == TRUE

\* `with _exec_lock` (an RLock no handler re-enters): entered only while no
\* other thread is inside
exec_lock_free(owner) == owner = 0

\* a credential check made ahead of the SIMULATE branch
credentials_checked_first(sim, creds) == ~creds

\* lines 268 and 283-285: the credentials are looked at only after the
\* SIMULATE branch has returned
missing_credentials_block(sim, creds) == ~sim /\ ~creds

\* line 253: int(payload.get('quantity') or 0) raises inside _exec_lock and
\* the handler leaves through the finally of line 361
int_quantity_raises(pl) == ~pl.int_quantity

\* lines 251-266 and 283-285: enter _exec_lock; an int() that raises, a
\* quantity <= 0, or live mode without credentials, leaves at once
EntryExec(t) ==
    /\ pc[t] = "e_exec"
    /\ exec_lock_free(exec_owner)
    /\ IF \/ int_quantity_raises(payload[t])
          \/ payload[t].quantity <= 0
          \/ missing_credentials_block(SIMULATE, credentials)
       THEN /\ Goto(t, "e_release")
            /\ UNCHANGED exec_owner
       ELSE /\ exec_owner' = t
            /\ Goto(t, IF SIMULATE THEN "e_sim_place" ELSE "e_live_place")
    /\ UNCHANGED <<cfgVars, auxVars, market_open, approved, payload, held_key, res, snap,
                   adv_lock, positions, trades, pending_orders, published,
                   filled_inflight, broker_calls>>

\* lines 269-272: journal simulated, publish ORDER_PLACED, track pending
EntrySimPlaceWith(t, db_outcomes) ==
    /\ pc[t] = "e_sim_place"
    /\ \E ok \in db_outcomes :
         LET pl == payload[t]
             tid == returned_id(ok, trades)
         IN /\ trades' = record_trade_db(ok, trades, pl.side, pl.quantity, pl.price,
                                         "simulated", pl.pos_id)
            /\ published' = Append(published, Event("ORDER_PLACED", pl.pos_id, "simulated"))
            /\ pending_orders' = Put(pending_orders, pl.pos_id,
                   PendingOrder(tid, pl.quantity, pl.side, pl.price, None, TRUE))
    /\ Goto(t, "e_sim_fill")
    /\ UNCHANGED <<cfgVars, auxVars, market_open, approved, payload, held_key, res, snap,
                   adv_lock, exec_owner, positions, filled_inflight, broker_calls>>

EntrySimPlace(t) == EntrySimPlaceWith(t, {TRUE})

\* lines 274-280: with the market closed open the position, publish
\* ORDER_FILLED and drop the pending entry; with the market open leave it
\* pending. A ValueError of Position() leaves the `with` before the publish.
EntrySimFill(t) ==
    /\ pc[t] = "e_sim_fill"
    /\ LET pl == payload[t]
           o == open_position(positions, pl.pos_id, pl.symbol, pl.side,
                              pl.quantity, pl.price, pl.security_id)
       IN IF market_open
          THEN UNCHANGED <<positions, published, filled_inflight, pending_orders>>
          ELSE IF o.ret.kind = "ValueError"
          THEN UNCHANGED <<positions, published, filled_inflight, pending_orders>>
          ELSE /\ positions' = o.store
               /\ published' = Append(published, Event("ORDER_FILLED", pl.pos_id, "simulated"))
               /\ filled_inflight' = [filled_inflight EXCEPT ![pl.pos_id] = @ + 1]
               /\ pending_orders' = Remove(pending_orders, pl.pos_id)
    /\ exec_owner' = 0
    /\ Goto(t, "e_release")
    /\ UNCHANGED <<cfgVars, auxVars, market_open, approved, payload, held_key, res, snap,
                   adv_lock, trades, broker_calls>>

\* lines 287-320 and 358-360: the broker order, then journal sent, publish
\* ORDER_PLACED, register the position and track pending. A broker answer
\* rejected/failed journals rejected; any exception journals failed.
EntryLivePlaceOn(t, responses, db_outcomes) ==
    /\ pc[t] = "e_live_place"
    /\ \E resp \in responses, ok \in db_outcomes :
         LET pl == payload[t]
             tid == returned_id(ok, trades)
             sent == record_trade_db(ok, trades, pl.side, pl.quantity, pl.price, "sent", pl.pos_id)
             o == open_position(positions, pl.pos_id, pl.symbol, pl.side,
                                pl.quantity, pl.price, pl.security_id)
         IN /\ broker_calls' = Append(broker_calls,
                                  BrokerCall(pl.pos_id, "MARKET", pl.side, pl.quantity))
            /\ CASE resp = "raise" ->
                     /\ trades' = record_trade_db(ok, trades, pl.side, pl.quantity, pl.price,
                                               "failed", None)
                     /\ exec_owner' = 0
                     /\ Goto(t, "e_release")
                     /\ UNCHANGED <<published, positions, pending_orders, res>>
                 [] rejected_response(resp) ->
                     /\ trades' = record_trade_db(ok, trades, pl.side, pl.quantity, pl.price,
                                               "rejected", pl.pos_id)
                     /\ res' = [res EXCEPT ![t] = resp]
                     /\ exec_owner' = 0
                     /\ Goto(t, "e_release")
                     /\ UNCHANGED <<published, positions, pending_orders>>
                 [] OTHER ->
                     /\ published' = Append(published, Event("ORDER_PLACED", pl.pos_id, "sent"))
                     /\ IF o.ret.kind = "ValueError"
                        THEN /\ trades' = record_trade_db(ok, sent, pl.side, pl.quantity, pl.price,
                                                       "failed", None)
                             /\ res' = [res EXCEPT ![t] = resp]
                             /\ exec_owner' = 0
                             /\ Goto(t, "e_release")
                             /\ UNCHANGED <<positions, pending_orders>>
                        ELSE /\ trades' = sent
                             /\ positions' = o.store
                             /\ pending_orders' = Put(pending_orders, pl.pos_id,
                                    PendingOrder(tid, pl.quantity, pl.side, pl.price, resp, FALSE))
                             /\ res' = [res EXCEPT ![t] = resp]
                             /\ UNCHANGED exec_owner
                             /\ Goto(t, "e_live_fill")
    /\ UNCHANGED <<cfgVars, auxVars, market_open, approved, payload, held_key, snap,
                   adv_lock, filled_inflight>>

\* the live entry step with the answers of BrokerResponses
EntryLivePlaceWith(t, db_outcomes) == EntryLivePlaceOn(t, BrokerResponses, db_outcomes)

EntryLivePlace(t) == EntryLivePlaceWith(t, {TRUE})

\* lines 322-356: on a fill reported in the response publish ORDER_FILLED,
\* drop the pending entry and, with initial_stoploss configured, send the
\* broker-side SL-M order on the opposite side
EntryLiveFill(t) ==
    /\ pc[t] = "e_live_fill"
    /\ LET pl == payload[t]
       IN IF immediate_fill(res[t])
          THEN /\ published' = Append(published, Event("ORDER_FILLED", pl.pos_id, "filled"))
               /\ filled_inflight' = [filled_inflight EXCEPT ![pl.pos_id] = @ + 1]
               /\ pending_orders' = Remove(pending_orders, pl.pos_id)
               /\ IF initial_stoploss # 0 /\ ~SIMULATE /\ pl.price # 0
                  THEN broker_calls' = Append(broker_calls,
                           BrokerCall(pl.pos_id, "SL-M", Reverse(pl.side), pl.quantity))
                  ELSE UNCHANGED broker_calls
          ELSE UNCHANGED <<published, filled_inflight, pending_orders, broker_calls>>
    /\ exec_owner' = 0
    /\ Goto(t, "e_release")
    /\ UNCHANGED <<cfgVars, auxVars, market_open, approved, payload, held_key, res, snap,
                   adv_lock, positions, trades>>

\* lines 362-367: the finally of _handle_entry_signal
EntryRelease(t) ==
    /\ pc[t] = "e_release"
    /\ adv_lock' = release_advisory_lock(adv_lock, t, held_key[t])
    /\ Goto(t, "done")
    /\ UNCHANGED <<cfgVars, auxVars, market_open, approved, payload, held_key, res, snap,
                   exec_owner, positions, trades, pending_orders, published,
                   filled_inflight, broker_calls>>

----------------------------------------------------------------------------
(* the EXIT_SIGNAL handler *)

\* _handle_exit_signal, lines 375-390: with a pos_id, try the advisory lock
\* and skip the exit when it is not obtained; without one go to the
\* security_id fallback
ExitAcquire(t) ==
    /\ pc[t] = "x_acquire"
    /\ IF payload[t].pos_id # None
       THEN LET key == payload[t].pos_id
                r == acquire_advisory_lock(adv_lock, t, key)
            IN /\ adv_lock' = r.locks
               /\ IF r.ok
                  THEN /\ held_key' = [held_key EXCEPT ![t] = key]
                       /\ Goto(t, "x_exec")
                  ELSE /\ UNCHANGED held_key
                       /\ Goto(t, "done")
       ELSE /\ Goto(t, "x_fb_acquire")
            /\ UNCHANGED <<adv_lock, held_key>>
    /\ UNCHANGED <<cfgVars, auxVars, market_open, approved, payload, res, snap,
                   exec_owner, positions, trades, pending_orders, published,
                   filled_inflight, broker_calls>>

\* a quantity read from the attribute of the Position object
ExitQty_from_attribute(p) == p.quantity

\* lines 398-401: get_position returns the Position object, which has no
\* get(); p.get('quantity') raises AttributeError inside the try and the
\* except sets qty = 0
ExitQty(p) == 0

\* lines 406-507, reached with qty > 0: the reverse broker order in live
\* mode, the pending simulated exit while the market is open, the internal
\* close otherwise
ExitClose(t, pid, qty) ==
    LET pl == payload[t]
        p == positions[pid]
        tid == Len(trades) + 1
        c == close_position(positions, pid, pl.price)
    IN IF ~SIMULATE
       THEN IF ~credentials
            THEN UNCHANGED <<positions, trades, pending_orders, published, broker_calls>>
            ELSE \E resp \in BrokerResponses :
                   /\ broker_calls' = Append(broker_calls,
                                         BrokerCall(pid, "MARKET", Reverse(p.side), qty))
                   /\ CASE resp = "raise" ->
                            UNCHANGED <<positions, trades, pending_orders, published>>
                        [] resp = "rejected" ->
                            /\ trades' = record_trade(trades, p.side, qty, pl.price,
                                                      "rejected", pid)
                            /\ UNCHANGED <<positions, pending_orders, published>>
                        [] resp = "open" ->
                            /\ trades' = record_trade(trades, Reverse(p.side), qty,
                                                      pl.price, "sent", pid)
                            /\ published' = Append(published, Event("ORDER_PLACED", pid, "sent"))
                            /\ pending_orders' = Put(pending_orders, pid,
                                   PendingOrder(tid, qty, Reverse(p.side), pl.price, resp, FALSE))
                            /\ UNCHANGED positions
                        [] OTHER ->
                            /\ trades' = record_trade(
                                   record_trade(trades, Reverse(p.side), qty, pl.price,
                                                "sent", pid),
                                   p.side, qty, pl.price, "closed", pid)
                            /\ published' = Append(published, Event("ORDER_PLACED", pid, "sent"))
                            /\ positions' = c.store
                            /\ pending_orders' = Remove(pending_orders, pid)
       ELSE IF market_open
       THEN /\ trades' = record_trade(trades, Reverse(p.side), qty, pl.price,
                                      "simulated", pid)
            /\ published' = Append(published, Event("ORDER_PLACED", pid, "simulated"))
            /\ pending_orders' = Put(pending_orders, pid,
                   PendingOrder(tid, qty, Reverse(p.side), pl.price, None, TRUE))
            /\ UNCHANGED <<positions, broker_calls>>
       ELSE /\ positions' = c.store
            /\ trades' = record_trade(trades, p.side, qty, pl.price, "closed", pid)
            /\ UNCHANGED <<pending_orders, published, broker_calls>>

\* lines 392-507: under _exec_lock look the position up; unknown position
\* or qty <= 0 returns
ExitExec(t) ==
    /\ pc[t] = "x_exec"
    /\ exec_lock_free(exec_owner)
    /\ LET pid == payload[t].pos_id
       IN IF pid \notin DOMAIN positions
          THEN UNCHANGED <<positions, trades, pending_orders, published, broker_calls>>
          ELSE IF ExitQty(positions[pid]) <= 0
          THEN UNCHANGED <<positions, trades, pending_orders, published, broker_calls>>
          ELSE ExitClose(t, pid, ExitQty(positions[pid]))
    /\ Goto(t, "x_release")
    /\ UNCHANGED <<cfgVars, auxVars, market_open, approved, payload, held_key, res, snap,
                   adv_lock, exec_owner, filled_inflight>>

\* lines 539-544: the finally of _handle_exit_signal
ExitRelease(t) ==
    /\ pc[t] = "x_release"
    /\ adv_lock' = release_advisory_lock(adv_lock, t, held_key[t])
    /\ Goto(t, "done")
    /\ UNCHANGED <<cfgVars, auxVars, market_open, approved, payload, held_key, res, snap,
                   exec_owner, positions, trades, pending_orders, published,
                   filled_inflight, broker_calls>>

\* lines 511-523: the positions of the list_positions() snapshot whose
\* security_id is the payload's
Candidates(ps, security_id) == {pid \in DOMAIN ps : ps[pid].security_id = security_id}

\* lines 511-523: walk the snapshot; a candidate whose advisory lock is not
\* obtained is skipped, the first one obtained is kept
ExitFbAcquire(t) ==
    /\ pc[t] = "x_fb_acquire"
    /\ LET cands == Candidates(positions, payload[t].security_id)
           free == {pid \in cands : acquire_advisory_lock(adv_lock, t, pid).ok}
       IN IF free = {}
          THEN /\ Goto(t, "done")
               /\ UNCHANGED <<adv_lock, held_key, snap>>
          ELSE \E pid \in free :
                 /\ adv_lock' = acquire_advisory_lock(adv_lock, t, pid).locks
                 /\ held_key' = [held_key EXCEPT ![t] = pid]
                 /\ snap' = [snap EXCEPT ![t] = [pid |-> pid, side |-> positions[pid].side,
                                                 quantity |-> positions[pid].quantity]]
                 /\ Goto(t, "x_fb_close")
    /\ UNCHANGED <<cfgVars, auxVars, market_open, approved, payload, res,
                   exec_owner, positions, trades, pending_orders, published,
                   filled_inflight, broker_calls>>

\* lines 525-526: under _exec_lock close the candidate
ExitFbClose(t) ==
    /\ pc[t] = "x_fb_close"
    /\ exec_lock_free(exec_owner)
    /\ exec_owner' = t
    /\ positions' = close_position(positions, snap[t].pid, payload[t].price).store
    /\ Goto(t, "x_fb_record")
    /\ UNCHANGED <<cfgVars, auxVars, market_open, approved, payload, held_key, res, snap,
                   adv_lock, trades, pending_orders, published,
                   filled_inflight, broker_calls>>

\* lines 527-528: journal closed from the snapshot entry and return
ExitFbRecord(t) ==
    /\ pc[t] = "x_fb_record"
    /\ trades' = record_trade(trades, snap[t].side, snap[t].quantity, payload[t].price,
                              "closed", snap[t].pid)
    /\ exec_owner' = 0
    /\ Goto(t, "x_fb_release")
    /\ UNCHANGED <<cfgVars, auxVars, market_open, approved, payload, held_key, res, snap,
                   adv_lock, positions, pending_orders, published,
                   filled_inflight, broker_calls>>

\* lines 529-534: the finally of the fallback
ExitFbRelease(t) ==
    /\ pc[t] = "x_fb_release"
    /\ adv_lock' = release_advisory_lock(adv_lock, t, held_key[t])
    /\ Goto(t, "done")
    /\ UNCHANGED <<cfgVars, auxVars, market_open, approved, payload, held_key, res, snap,
                   exec_owner, positions, trades, pending_orders, published,
                   filled_inflight, broker_calls>>

----------------------------------------------------------------------------
(* the ORDER_FILLED handler and the clock *)

\* the fields of an ORDER_FILLED payload the handler reads. A db_id is a
\* number in the code and so never a key of the table, whose keys are
\* pos_id strings: it is written here as a string outside PosIds.
FilledPayload(pos_id, trade_id, db_id) ==
    [pos_id |-> pos_id, trade_id |-> trade_id, db_id |-> db_id]

\* payload.get('pos_id') or payload.get('trade_id') or payload.get('db_id')
order_filled_key(pl) ==
    IF pl.pos_id # None THEN pl.pos_id
    ELSE IF pl.trade_id # None THEN pl.trade_id
    ELSE pl.db_id

\* dict.popitem-like removal: takes some entry when the key is absent
pop_or_popitem(table, key) ==
    IF key \in DOMAIN table THEN Remove(table, key)
    ELSE IF DOMAIN table = {} THEN table
    ELSE Remove(table, CHOOSE k \in DOMAIN table : TRUE)

\* _pending_orders.pop(key, None)
pop(table, key) == Remove(table, key)

\* _handle_order_filled_cleanup(payload), as a function of the table
handle_order_filled_cleanup(table, pl) ==
    IF order_filled_key(pl) # None THEN pop(table, order_filled_key(pl)) ELSE table

\* a handler that takes the fill as the end of the position
registry_after_fill_dropping(ps, pos_id) == Remove(ps, pos_id)

\* lines 547-558: the handler holds no call of position_manager
registry_after_fill(ps, pos_id) == ps

\* _handle_order_filled_cleanup run by the thread publish started, for an
\* ORDER_FILLED the engine published (lines 276 and 333)
OrderFilledCleanup(pos_id) ==
    /\ filled_inflight[pos_id] > 0
    /\ filled_inflight' = [filled_inflight EXCEPT ![pos_id] = @ - 1]
    /\ pending_orders' = handle_order_filled_cleanup(pending_orders,
                                                     FilledPayload(pos_id, pos_id, None))
    /\ positions' = registry_after_fill(positions, pos_id)
    /\ UNCHANGED <<cfgVars, auxVars, market_open, approved, pc, payload, held_key, res, snap,
                   adv_lock, exec_owner, trades, published, broker_calls>>

\* time passes: is_market_open() changes its answer. Only the SIMULATE
\* branches call it (lines 274 and 490).
ClockTick ==
    /\ SIMULATE
    /\ market_open' = ~market_open
    /\ UNCHANGED <<cfgVars, auxVars, approved, pc, payload, held_key, res, snap,
                   adv_lock, exec_owner, positions, trades, pending_orders,
                   published, filled_inflight, broker_calls>>

----------------------------------------------------------------------------
(* the pending-order monitor (execution.py:54-109) and the passing of time *)

Min(a, b) == IF a < b THEN a ELSE b

\* line 59: int(config.get('order_timeout_seconds', 30) or 30)
order_timeout(cfg) == IF cfg = 0 THEN DefaultTimeout ELSE cfg

\* line 103: max(1, min(5, timeout // 3 if timeout > 0 else 5))
scan_period_unclamped(timeout) == Max(1, timeout)

scan_period(timeout) ==
    Max(1, Min(5, IF timeout > 0 THEN timeout \div 3 ELSE 5))

\* ages are counted up to the first value past every limit of interest
AgeCap == order_timeout(order_timeout_seconds)
          + Max(5, order_timeout(order_timeout_seconds) \div 3) + 1

TimeoutEvent(pos_id, db_id) ==
    [topic |-> "ORDER_TIMEOUT", pos_id |-> pos_id, status |-> "timed_out", db_id |-> db_id]

\* a monitor that deletes the row of a timed-out order
mark_timed_out_deleting(tr, db_id) == SelectSeq(tr, LAMBDA r : r.id # db_id)

\* lines 94-96: UPDATE trades SET status = 'timed_out' WHERE id = db_id
mark_timed_out(tr, db_id) ==
    [i \in 1..Len(tr) |-> IF tr[i].id = db_id THEN [tr[i] EXCEPT !.status = "timed_out"]
                          ELSE tr[i]]

monFrame == <<cfgVars, last_call, risk_in, risk_ret, clock_call, lock_run, delivered, busVars,
              order_timeout_seconds,
              market_open, approved, pc, payload, held_key, res, snap, adv_lock,
              exec_owner, filled_inflight>>

\* the entries of a snapshot the loop does not skip at line 69
Aged(snapshot, timeout) ==
    [k \in {x \in DOMAIN snapshot : snapshot[x].age >= timeout} |-> snapshot[k]]

\* lines 57-70: the sleep is over, the loop takes a snapshot of
\* _pending_orders and passes over the entries younger than the timeout
MonScan ==
    /\ mon.pc = "m_sleep"
    /\ mon.sleep = 0
    /\ mon' = [mon EXCEPT !.pc = "m_iter",
                  !.todo = Aged(pending_orders, order_timeout(order_timeout_seconds))]
    /\ UNCHANGED <<monFrame, positions, trades, pending_orders, published, broker_calls>>

\* a cancel that lets the broker's exception end the iteration
after_cancel_unprotected(outcome) == IF outcome = "raise" THEN "m_iter" ELSE "m_publish"

\* lines 75-84: an exception of the broker cancel is logged and the
\* iteration goes on
after_cancel(outcome) == "m_publish"

\* line 74: (not SIMULATE) and broker_info and broker_info.get('order_id')
cancel_wanted(sim, broker_info) == ~sim /\ broker_info # None

\* lines 61-84: the next aged entry of the snapshot, for which the
\* best-effort broker cancel is attempted (mon.cancel keeps how it ended).
\* After the last entry the thread sleeps for the scan period (line 103).
MonPick ==
    /\ mon.pc = "m_iter"
    /\ IF DOMAIN mon.todo = {}
       THEN /\ mon' = [mon EXCEPT !.pc = "m_sleep",
                         !.sleep = scan_period(order_timeout(order_timeout_seconds))]
            /\ UNCHANGED broker_calls
       ELSE \E key \in DOMAIN mon.todo :
              LET meta == mon.todo[key]
                  rest == Remove(mon.todo, key)
              IN IF cancel_wanted(SIMULATE, meta.broker_info)
                 THEN \E outcome \in {"ok", "raise"} :
                        /\ broker_calls' = Append(broker_calls,
                               BrokerCall(key, "CANCEL", meta.side, meta.qty))
                        /\ mon' = [mon EXCEPT !.pc = after_cancel(outcome), !.todo = rest,
                                              !.key = key, !.meta = meta,
                                              !.cancel = outcome]
                 ELSE /\ mon' = [mon EXCEPT !.pc = "m_publish", !.todo = rest,
                                            !.key = key, !.meta = meta,
                                            !.cancel = None]
                      /\ UNCHANGED broker_calls
    /\ UNCHANGED <<monFrame, positions, trades, pending_orders, published>>

\* lines 86-90: publish ORDER_TIMEOUT
MonPublish ==
    /\ mon.pc = "m_publish"
    /\ published' = Append(published, TimeoutEvent(mon.key, mon.meta.db_id))
    /\ mon' = [mon EXCEPT !.pc = "m_mark"]
    /\ UNCHANGED <<monFrame, positions, trades, pending_orders, broker_calls>>

\* lines 92-98: mark the trade row timed_out; a database error is logged
MonMarkWith(db_outcomes) ==
    /\ mon.pc = "m_mark"
    /\ \E ok \in db_outcomes :
         trades' = IF ok THEN mark_timed_out(trades, mon.meta.db_id) ELSE trades
    /\ mon' = [mon EXCEPT !.pc = "m_remove"]
    /\ UNCHANGED <<monFrame, positions, pending_orders, published, broker_calls>>

\* a monitor that drops the position of a timed-out order
registry_after_timeout_dropping(ps, key) == Remove(ps, key)

\* lines 61-101: the loop body holds no call of position_manager
registry_after_timeout(ps, key) == ps

\* lines 100-101: _pending_orders.pop(key, None); the loop variables of the
\* entry are done with
MonRemove ==
    /\ mon.pc = "m_remove"
    /\ pending_orders' = Remove(pending_orders, mon.key)
    /\ positions' = registry_after_timeout(positions, mon.key)
    /\ mon' = [mon EXCEPT !.pc = "m_iter", !.key = MonStart.key,
                          !.meta = MonStart.meta, !.cancel = MonStart.cancel]
    /\ UNCHANGED <<monFrame, trades, published, broker_calls>>

\* one second passes while the monitor sleeps: every pending entry is a
\* second older. A scan is taken to last less than a second.
Tick ==
    /\ mon.pc = "m_sleep"
    /\ mon.sleep > 0
    /\ mon' = [mon EXCEPT !.sleep = @ - 1]
    /\ pending_orders' = [k \in DOMAIN pending_orders |->
                            [pending_orders[k] EXCEPT !.age = Min(@ + 1, AgeCap)]]
    /\ UNCHANGED <<monFrame, positions, trades, published, broker_calls>>

----------------------------------------------------------------------------
(* the locks a thread takes, in the order the code takes them *)

\* the thread of _start_pending_monitor, next to the handler threads
MonitorThread == NumHandlers + 1
LockThreads == Handlers \cup {MonitorThread}

\* PositionManager._lock (position_manager.py:48) and event_bus._lock
\* (event_bus.py:9); _exec_lock is exec_owner
InnerLocks == {"registry", "bus"}

Acquire(l) == [op |-> "acquire", arg |-> l]
Release(l) == [op |-> "release", arg |-> l]
TryAdvisory(key) == [op |-> "try_advisory", arg |-> key]
ReleaseAdvisory(key) == [op |-> "release_advisory", arg |-> key]

\* a `with` that keeps the lock when its body raises
with_lock_kept_on_raise(l, body, raised) ==
    IF raised THEN <<Acquire(l)>> \o body ELSE <<Acquire(l)>> \o body \o <<Release(l)>>

\* `with lock:` around `body`: the lock is given back when the body
\* returns and when it raises
with_lock(l, body, raised) == <<Acquire(l)>> \o body \o <<Release(l)>>

\* a PositionManager method: its body takes no other lock
\* (position_manager.py:50-109); Position() may raise inside it
call_registry(raised) == with_lock("registry", <<>>, raised)

\* event_bus.publish: the lock is held for the copy of the list only
\* (event_bus.py:25-26)
publish_ops == with_lock("bus", <<>>, FALSE)

\* what _handle_entry_signal does inside `with _exec_lock` (lines 251-360),
\* with whether it left by an exception: nothing (invalid quantity, no
\* credentials, a raising int() or place_order); ORDER_PLACED only;
\* ORDER_PLACED and an open_position that raises; ORDER_PLACED and
\* open_position; these and ORDER_FILLED
EntryBodies ==
    {<<<<>>, FALSE>>, <<<<>>, TRUE>>,
     <<publish_ops, FALSE>>,
     <<publish_ops \o call_registry(TRUE), TRUE>>,
     <<publish_ops \o call_registry(FALSE), FALSE>>,
     <<publish_ops \o call_registry(FALSE) \o publish_ops, FALSE>>}

\* lines 227-249: check_risk reads list_positions (risk.py:17), unless it
\* raised before
EntryRiskOps == {<<>>, call_registry(FALSE)}

\* _handle_entry_signal, lines 218-367: the paths that return after the
\* risk check and those that go through _exec_lock
EntryPaths(key) ==
    {<<TryAdvisory(key)>> \o r \o <<ReleaseAdvisory(key)>> : r \in EntryRiskOps}
    \cup {<<TryAdvisory(key)>> \o r \o with_lock("exec", b[1], b[2])
             \o <<ReleaseAdvisory(key)>> : r \in EntryRiskOps, b \in EntryBodies}

\* _handle_exit_signal: by pos_id (lines 380-404), and the security_id
\* fallback without and with a candidate (lines 511-536)
ExitPaths(key) ==
    {<<TryAdvisory(key)>> \o with_lock("exec", call_registry(FALSE), FALSE)
         \o <<ReleaseAdvisory(key)>>,
     call_registry(FALSE),
     call_registry(FALSE) \o <<TryAdvisory(key)>>
         \o with_lock("exec", call_registry(FALSE), FALSE) \o <<ReleaseAdvisory(key)>>}

LockStart ==
    [todo |-> [th \in LockThreads |-> <<>>],
     ran |-> {},
     owner |-> [l \in InnerLocks |-> 0]]

----------------------------------------------------------------------------
(* Spec: the handlers under every configuration *)

\* a PositionManager call: the method, its arguments, the registry before
\* it and what it returned
Call(op, pos_id, symbol, side, quantity, price, before, ret) ==
    [op |-> op, pos_id |-> pos_id, symbol |-> symbol, side |-> side,
     quantity |-> quantity, price |-> price, before |-> before, ret |-> ret]

NoCall == Call("none", None, None, None, 0, 0, <<>>, Ret("none", NoPosition))

RiskIn(side, requested_qty, confidence, daily_pnl, trade_count) ==
    [side |-> side, requested_qty |-> requested_qty, confidence |-> confidence,
     daily_pnl |-> daily_pnl, trade_count |-> trade_count]

NoRiskIn == RiskIn(None, 0, NoConfidence, 0, 0)
NoRiskRet == [called |-> FALSE, approved |-> FALSE, qty |-> 0]

\* datetime.utcnow() of an is_market_open() call: the UTC weekday (Monday
\* is 0), the second of the UTC day, and whether the instant lies strictly
\* after that second (microseconds not zero)
Instant(weekday, second, late) == [weekday |-> weekday, second |-> second, late |-> late]

ClockCall(now, called, ret) == [now |-> now, called |-> called, ret |-> ret]
NoClockCall == ClockCall(Instant(0, 0, FALSE), FALSE, FALSE)

HandlerInit ==
    /\ pc = [t \in Handlers |-> "idle"]
    /\ payload = [t \in Handlers |-> NoPayload]
    /\ approved = [t \in Handlers |-> None]
    /\ held_key = [t \in Handlers |-> None]
    /\ res = [t \in Handlers |-> None]
    /\ snap = [t \in Handlers |-> NoSnap]
    /\ adv_lock = [k \in PosIds |-> NoSession]
    /\ exec_owner = 0
    /\ positions = <<>>
    /\ trades = <<>>
    /\ pending_orders = <<>>
    /\ published = <<>>
    /\ filled_inflight = [p \in PosIds |-> 0]
    /\ broker_calls = <<>>
    /\ mon = MonStart

BusInit ==
    /\ subscribers = <<>>
    /\ pub = NoPublish
    /\ threads = <<>>

AuxInit ==
    /\ BusInit
    /\ delivered = NoDelivery
    /\ last_call = NoCall
    /\ risk_in = NoRiskIn
    /\ risk_ret = NoRiskRet
    /\ clock_call = NoClockCall
    /\ lock_run = LockStart

\* SIMULATE; live without credentials; live with credentials, without and
\* with a configured stop loss
Configs == {<<TRUE, TRUE, 0>>, <<FALSE, FALSE, 0>>, <<FALSE, TRUE, 0>>, <<FALSE, TRUE, 10>>}

Init ==
    /\ \E c \in Configs :
         /\ SIMULATE = c[1]
         /\ credentials = c[2]
         /\ initial_stoploss = c[3]
    /\ order_timeout_seconds = DefaultTimeout
    /\ market_open \in (IF SIMULATE THEN BOOLEAN ELSE {FALSE})
    /\ HandlerInit
    /\ AuxInit

HandlerStep(t) ==
    \/ \E pl \in EntryPayloads \cup ExitPayloads : Publish(t, pl)
    \/ EntryAcquire(t)
    \/ EntryRisk(t)
    \/ EntryExec(t)
    \/ EntrySimPlace(t)
    \/ EntrySimFill(t)
    \/ EntryLivePlace(t)
    \/ EntryLiveFill(t)
    \/ EntryRelease(t)
    \/ ExitAcquire(t)
    \/ ExitExec(t)
    \/ ExitRelease(t)
    \/ ExitFbAcquire(t)
    \/ ExitFbClose(t)
    \/ ExitFbRecord(t)
    \/ ExitFbRelease(t)

Next ==
    \/ \E t \in Handlers : HandlerStep(t)
    \/ \E k \in PosIds : ConnectionClosed(k)
    \/ \E p \in PosIds : OrderFilledCleanup(p)
    \/ ClockTick

Spec == Init /\ [][Next]_vars

----------------------------------------------------------------------------
(* SpecSim: SIMULATE = true, the market closed throughout and bot_state at
   its defaults, as in tests/test_execution_concurrency.py *)

InitSim ==
    /\ SIMULATE = TRUE
    /\ credentials = TRUE
    /\ initial_stoploss = 0
    /\ order_timeout_seconds = DefaultTimeout
    /\ market_open = FALSE
    /\ HandlerInit
    /\ AuxInit

HandlerStepSim(t) ==
    \/ \E pl \in EntryPayloads \cup ExitPayloads : Publish(t, pl)
    \/ EntryAcquire(t)
    \/ EntryRiskWith(t, {0}, {0})
    \/ EntryExec(t)
    \/ EntrySimPlace(t)
    \/ EntrySimFill(t)
    \/ EntryRelease(t)
    \/ ExitAcquire(t)
    \/ ExitExec(t)
    \/ ExitRelease(t)
    \/ ExitFbAcquire(t)
    \/ ExitFbClose(t)
    \/ ExitFbRecord(t)
    \/ ExitFbRelease(t)

NextSim ==
    \/ \E t \in Handlers : HandlerStepSim(t)
    \/ \E k \in PosIds : ConnectionClosed(k)
    \/ \E p \in PosIds : OrderFilledCleanup(p)

SpecSim == InitSim /\ [][NextSim]_vars

----------------------------------------------------------------------------
(* SpecGate: ENTRY_SIGNAL handlers whose risk check may fail: check_risk's
   body raises, or the quantity of the payload is one int() raises on *)

\* SIMULATE, and live with credentials
GateConfigs == {<<TRUE, TRUE>>, <<FALSE, TRUE>>}

GatePayloads == {pl \in EntryPayloads : pl.quantity = 1} \cup BadQuantityPayloads

InitGate ==
    /\ \E c \in GateConfigs :
         /\ SIMULATE = c[1]
         /\ credentials = c[2]
    /\ initial_stoploss = 0
    /\ order_timeout_seconds = DefaultTimeout
    /\ market_open \in (IF SIMULATE THEN BOOLEAN ELSE {FALSE})
    /\ HandlerInit
    /\ AuxInit

HandlerStepGate(t) ==
    \/ \E pl \in GatePayloads : Publish(t, pl)
    \/ EntryAcquire(t)
    \/ EntryRiskOn(t, DailyPnls, {0}, BOOLEAN)
    \/ EntryExec(t)
    \/ EntrySimPlace(t)
    \/ EntrySimFill(t)
    \/ EntryLivePlace(t)
    \/ EntryLiveFill(t)
    \/ EntryRelease(t)

NextGate ==
    \/ \E t \in Handlers : HandlerStepGate(t)
    \/ \E p \in PosIds : OrderFilledCleanup(p)

SpecGate == InitGate /\ [][NextGate]_vars

----------------------------------------------------------------------------
(* SpecSide: ENTRY_SIGNAL handlers given a side that Position() refuses,
   next to one it accepts *)

\* payload.get('side') is handed on as it comes (line 213)
SidePayloads ==
    {[kind |-> "ENTRY_SIGNAL", pos_id |-> p, symbol |-> "NIFTY", side |-> s,
      quantity |-> 1, price |-> EntryPrice, security_id |-> SecOf(p),
      int_quantity |-> TRUE] : p \in PosIds, s \in {"BUY", "HOLD"}}

HandlerStepSide(t) ==
    \/ \E pl \in SidePayloads : Publish(t, pl)
    \/ EntryAcquire(t)
    \/ EntryRiskWith(t, {0}, {0})
    \/ EntryExec(t)
    \/ EntrySimPlace(t)
    \/ EntrySimFill(t)
    \/ EntryLivePlace(t)
    \/ EntryLiveFill(t)
    \/ EntryRelease(t)

NextSide ==
    \/ \E t \in Handlers : HandlerStepSide(t)
    \/ \E p \in PosIds : OrderFilledCleanup(p)

SpecSide == InitGate /\ [][NextSide]_vars

----------------------------------------------------------------------------
(* SpecLive: live ENTRY_SIGNAL handlers against a broker that answers in
   every shape of LiveResponses *)

\* initial_stoploss off and on
LiveStops == {0, 10}

LivePayloads == {pl \in EntryPayloads : pl.quantity = 1 /\ pl.side = "BUY"}

InitLive ==
    /\ SIMULATE = FALSE
    /\ credentials = TRUE
    /\ initial_stoploss \in LiveStops
    /\ order_timeout_seconds = DefaultTimeout
    /\ market_open = FALSE
    /\ HandlerInit
    /\ AuxInit

HandlerStepLive(t) ==
    \/ \E pl \in LivePayloads : Publish(t, pl)
    \/ EntryAcquire(t)
    \/ EntryRiskWith(t, {0}, {0})
    \/ EntryExec(t)
    \/ EntryLivePlaceOn(t, LiveResponses, {TRUE})
    \/ EntryLiveFill(t)
    \/ EntryRelease(t)

NextLive ==
    \/ \E t \in Handlers : HandlerStepLive(t)
    \/ \E p \in PosIds : OrderFilledCleanup(p)

SpecLive == InitLive /\ [][NextLive]_vars

----------------------------------------------------------------------------
(* SpecExit: EXIT_SIGNAL handlers in live mode for a position that a filled
   live entry (BUY 1 for P1) left OPEN *)

InitExit ==
    /\ SIMULATE = FALSE
    /\ credentials = TRUE
    /\ initial_stoploss = 0
    /\ order_timeout_seconds = DefaultTimeout
    /\ market_open = FALSE
    /\ pc = [t \in Handlers |-> "idle"]
    /\ payload = [t \in Handlers |-> NoPayload]
    /\ approved = [t \in Handlers |-> None]
    /\ held_key = [t \in Handlers |-> None]
    /\ res = [t \in Handlers |-> None]
    /\ snap = [t \in Handlers |-> NoSnap]
    /\ adv_lock = [k \in PosIds |-> NoSession]
    /\ exec_owner = 0
    /\ positions = open_position(<<>>, "P1", "NIFTY", "BUY", 1, EntryPrice, SecOf("P1")).store
    /\ trades = record_trade(<<>>, "BUY", 1, EntryPrice, "sent", "P1")
    /\ pending_orders = <<>>
    /\ published = <<Event("ORDER_PLACED", "P1", "sent"), Event("ORDER_FILLED", "P1", "filled")>>
    /\ filled_inflight = [p \in PosIds |-> 0]
    /\ broker_calls = <<BrokerCall("P1", "MARKET", "BUY", 1)>>
    /\ mon = MonStart
    /\ AuxInit

HandlerStepExit(t) ==
    \/ \E pl \in ExitPayloads : Publish(t, pl)
    \/ ExitAcquire(t)
    \/ ExitExec(t)
    \/ ExitRelease(t)
    \/ ExitFbAcquire(t)
    \/ ExitFbClose(t)
    \/ ExitFbRecord(t)
    \/ ExitFbRelease(t)

NextExit ==
    \/ \E t \in Handlers : HandlerStepExit(t)
    \/ \E k \in PosIds : ConnectionClosed(k)

SpecExit == InitExit /\ [][NextExit]_vars

----------------------------------------------------------------------------
(* SpecStore: PositionManager called directly *)

StoreSides == {"BUY", "SELL", "buy", "HOLD"}
StoreQtys == {0, 1, 2}
StorePrices == {50, 100}

StoreOpen(pos_id, symbol, side, quantity, entry_price) ==
    LET o == open_position(positions, pos_id, symbol, side, quantity, entry_price,
                           SecOf(pos_id))
    IN /\ positions' = o.store
       /\ last_call' = Call("open", pos_id, symbol, side, quantity, entry_price,
                            positions, o.ret)
       /\ UNCHANGED <<handlerVars, risk_in, risk_ret, clock_call>>

StoreClose(pos_id, exit_price) ==
    LET c == close_position(positions, pos_id, exit_price)
    IN /\ positions' = c.store
       /\ last_call' = Call("close", pos_id, None, None, 0, exit_price, positions, c.ret)
       /\ UNCHANGED <<handlerVars, risk_in, risk_ret, clock_call>>

StoreUpdate(pos_id, market_price) ==
    LET u == update_market_price(positions, pos_id, market_price)
    IN /\ positions' = u.store
       /\ last_call' = Call("update", pos_id, None, None, 0, market_price, positions, u.ret)
       /\ UNCHANGED <<handlerVars, risk_in, risk_ret, clock_call>>

InitStore ==
    /\ SIMULATE = TRUE
    /\ credentials = TRUE
    /\ initial_stoploss = 0
    /\ order_timeout_seconds = DefaultTimeout
    /\ market_open = FALSE
    /\ HandlerInit
    /\ AuxInit

NextStore ==
    \/ \E p \in PosIds, sy \in Symbols, s \in StoreSides, q \in StoreQtys, pr \in StorePrices :
         StoreOpen(p, sy, s, q, pr)
    \/ \E p \in PosIds, pr \in StorePrices : StoreClose(p, pr)
    \/ \E p \in PosIds, pr \in StorePrices : StoreUpdate(p, pr)

SpecStore == InitStore /\ [][NextStore]_vars

----------------------------------------------------------------------------
(* SpecRisk: check_risk on enumerated arguments, bot_state and registry *)

RiskSides == {"BUY", "SELL", "sell"}
RiskQtys == {0, 1, 50, 200, 201}
RiskConfidences == {NoConfidence, Confidence(0), Confidence(1), Confidence(4), Confidence(17)}
RiskDailyPnls == {0, -4999, -5000, -5001}
RiskTradeCounts == {0, 19, 20, 21}

\* registries the single-position store can hold: empty or one position
RiskStores ==
    {<<>>} \cup
    {[p \in {"P1"} |-> Position("NIFTY", s, q, EntryPrice, "S1")] :
        s \in {"BUY", "SELL"}, q \in {1, 150, 200}}

InitRisk ==
    /\ SIMULATE = TRUE
    /\ credentials = TRUE
    /\ initial_stoploss = 0
    /\ order_timeout_seconds = DefaultTimeout
    /\ market_open = FALSE
    /\ pc = [t \in Handlers |-> "idle"]
    /\ payload = [t \in Handlers |-> NoPayload]
    /\ approved = [t \in Handlers |-> None]
    /\ held_key = [t \in Handlers |-> None]
    /\ res = [t \in Handlers |-> None]
    /\ snap = [t \in Handlers |-> NoSnap]
    /\ adv_lock = [k \in PosIds |-> NoSession]
    /\ exec_owner = 0
    /\ positions \in RiskStores
    /\ trades = <<>>
    /\ pending_orders = <<>>
    /\ published = <<>>
    /\ filled_inflight = [p \in PosIds |-> 0]
    /\ broker_calls = <<>>
    /\ mon = MonStart
    /\ BusInit
    /\ delivered = NoDelivery
    /\ last_call = NoCall
    /\ risk_in \in {RiskIn(s, q, c, dp, tc) :
                      s \in RiskSides, q \in RiskQtys, c \in RiskConfidences,
                      dp \in RiskDailyPnls, tc \in RiskTradeCounts}
    /\ risk_ret = NoRiskRet
    /\ clock_call = NoClockCall
    /\ lock_run = LockStart

RiskCheck ==
    /\ ~risk_ret.called
    /\ LET r == check_risk(risk_in.side, risk_in.requested_qty, risk_in.confidence,
                           risk_in.daily_pnl, risk_in.trade_count, positions)
       IN risk_ret' = [called |-> TRUE, approved |-> r[1], qty |-> r[2]]
    /\ UNCHANGED <<handlerVars, positions, last_call, risk_in, clock_call>>

NextRisk == RiskCheck

SpecRisk == InitRisk /\ [][NextRisk]_vars

----------------------------------------------------------------------------
(* SpecClock: is_market_open called at enumerated instants *)

DaySeconds == 24 * 3600

\* timedelta(hours=5, minutes=30)
IstShift == 5 * 3600 + 30 * 60

\* _time(hour=9, minute=15) and _time(hour=15, minute=30), in seconds
SessionStart == 9 * 3600 + 15 * 60
SessionEnd == 15 * 3600 + 30 * 60

\* an is_market_open that reads the UTC clock as the exchange's
is_market_open_unshifted(now) ==
    /\ now.weekday < 5
    /\ SessionStart <= now.second
    /\ now.second < SessionEnd \/ (now.second = SessionEnd /\ ~now.late)

\* is_market_open, lines 148-156: ist = utcnow() + 5:30; False on Saturday
\* and Sunday; else start <= ist.time() <= end
is_market_open(now) ==
    LET ist_second == now.second + IstShift
        ist_weekday == (now.weekday + ist_second \div DaySeconds) % 7
        ist_time == ist_second % DaySeconds
    IN IF ist_weekday >= 5
       THEN FALSE
       ELSE /\ SessionStart <= ist_time
            /\ ist_time < SessionEnd \/ (ist_time = SessionEnd /\ ~now.late)

\* the instants tried: every quarter of an hour of the week, the second
\* before and the second after it, each exactly and a moment later
ClockInstants ==
    {Instant(d, q * 900 + e, late) :
        d \in 0..6, q \in 0..95, e \in {0, 1, 899}, late \in BOOLEAN}

InitClock ==
    /\ SIMULATE = TRUE
    /\ credentials = FALSE
    /\ initial_stoploss = 0
    /\ order_timeout_seconds = DefaultTimeout
    /\ market_open = FALSE
    /\ HandlerInit
    /\ BusInit
    /\ delivered = NoDelivery
    /\ last_call = NoCall
    /\ risk_in = NoRiskIn
    /\ risk_ret = NoRiskRet
    /\ clock_call \in {ClockCall(now, FALSE, FALSE) : now \in ClockInstants}
    /\ lock_run = LockStart

\* one call of is_market_open()
MarketOpenCall ==
    /\ ~clock_call.called
    /\ clock_call' = ClockCall(clock_call.now, TRUE, is_market_open(clock_call.now))
    /\ UNCHANGED <<handlerVars, positions, last_call, risk_in, risk_ret>>

NextClock == MarketOpenCall

SpecClock == InitClock /\ [][NextClock]_vars

----------------------------------------------------------------------------
(* SpecMon: the handlers together with the pending-order monitor, the clock
   and a database that may fail *)

MonTimeouts == {1}
DbOutcomes == BOOLEAN

\* SIMULATE without credentials (the simulated branches never read them);
\* live with credentials
MonConfigs == {<<TRUE, FALSE>>, <<FALSE, TRUE>>}

MonPayloads ==
    {pl \in EntryPayloads : pl.quantity = 1 /\ pl.side = "BUY"} \cup ExitPayloads

InitMon ==
    /\ \E c \in MonConfigs :
         /\ SIMULATE = c[1]
         /\ credentials = c[2]
    /\ initial_stoploss = 0
    /\ order_timeout_seconds \in MonTimeouts
    /\ market_open \in (IF SIMULATE THEN BOOLEAN ELSE {FALSE})
    /\ HandlerInit
    /\ AuxInit

HandlerStepMon(t) ==
    \/ \E pl \in MonPayloads : Publish(t, pl)
    \/ EntryAcquire(t)
    \/ EntryRiskWith(t, {0}, {0})
    \/ EntryExec(t)
    \/ EntrySimPlaceWith(t, DbOutcomes)
    \/ EntrySimFill(t)
    \/ EntryLivePlaceWith(t, DbOutcomes)
    \/ EntryLiveFill(t)
    \/ EntryRelease(t)
    \/ ExitAcquire(t)
    \/ ExitExec(t)
    \/ ExitRelease(t)
    \/ ExitFbAcquire(t)
    \/ ExitFbClose(t)
    \/ ExitFbRecord(t)
    \/ ExitFbRelease(t)

MonitorStep ==
    \/ MonScan
    \/ MonPick
    \/ MonPublish
    \/ MonMarkWith({TRUE})
    \/ MonRemove

NextMon ==
    \/ \E t \in Handlers : HandlerStepMon(t)
    \/ \E k \in PosIds : ConnectionClosed(k)
    \/ \E p \in PosIds : OrderFilledCleanup(p)
    \/ MonitorStep
    \/ Tick

SpecMon == InitMon /\ [][NextMon]_vars

----------------------------------------------------------------------------
(* SpecTimed: entries left pending, the monitor and the clock, with the
   scheduling the monitor thread relies on: the thread runs when its sleep
   is over and time keeps passing while it sleeps *)

TimedTimeouts == {3, 15}

\* SIMULATE with the market open, and live mode: the settings in which an
\* entry order stays pending
TimedConfigs == {<<TRUE, FALSE, TRUE>>, <<FALSE, TRUE, FALSE>>}

TimedPayloads == {pl \in EntryPayloads : pl.quantity = 1 /\ pl.side = "BUY"}

InitTimed ==
    /\ \E c \in TimedConfigs :
         /\ SIMULATE = c[1]
         /\ credentials = c[2]
         /\ market_open = c[3]
    /\ initial_stoploss = 0
    /\ order_timeout_seconds \in TimedTimeouts
    /\ HandlerInit
    /\ AuxInit

HandlerStepTimed(t) ==
    \/ \E pl \in TimedPayloads : Publish(t, pl)
    \/ EntryAcquire(t)
    \/ EntryRiskWith(t, {0}, {0})
    \/ EntryExec(t)
    \/ EntrySimPlace(t)
    \/ EntrySimFill(t)
    \/ EntryLivePlace(t)
    \/ EntryLiveFill(t)
    \/ EntryRelease(t)

MonitorStepTimed ==
    \/ MonScan
    \/ MonPick
    \/ MonPublish
    \/ MonMarkWith({TRUE})
    \/ MonRemove

NextTimed ==
    \/ \E t \in Handlers : HandlerStepTimed(t)
    \/ \E p \in PosIds : OrderFilledCleanup(p)
    \/ MonitorStepTimed
    \/ Tick

SpecTimed ==
    /\ InitTimed
    /\ [][NextTimed]_vars
    /\ WF_vars(MonitorStepTimed)
    /\ WF_vars(Tick)

----------------------------------------------------------------------------
(* SpecFilled: ORDER_FILLED delivered to _handle_order_filled_cleanup, for
   every pending table over PosIds and every payload *)

MaxDeliveries == 3

\* entries as lines 272 and 320 store them: a simulated and a live order
FilledMetas ==
    {PendingOrder(1, 1, "BUY", EntryPrice, None, TRUE),
     PendingOrder(2, 1, "SELL", EntryPrice, "open", FALSE)}

FilledTables ==
    UNION {[d -> FilledMetas] : d \in SUBSET PosIds}

\* a db_id, which is no key of the table
FilledDbIds == {"db:1"}

FilledPayloads ==
    {FilledPayload(p, t, d) : p \in PosIds \cup {None}, t \in PosIds \cup {None},
                              d \in FilledDbIds \cup {None}}

InitFilled ==
    /\ \E c \in Configs :
         /\ SIMULATE = c[1]
         /\ credentials = c[2]
         /\ initial_stoploss = c[3]
    /\ market_open = FALSE
    /\ order_timeout_seconds = DefaultTimeout
    /\ pc = [t \in Handlers |-> "idle"]
    /\ payload = [t \in Handlers |-> NoPayload]
    /\ approved = [t \in Handlers |-> None]
    /\ held_key = [t \in Handlers |-> None]
    /\ res = [t \in Handlers |-> None]
    /\ snap = [t \in Handlers |-> NoSnap]
    /\ adv_lock = [k \in PosIds |-> NoSession]
    /\ exec_owner = 0
    /\ positions = <<>>
    /\ trades = <<>>
    /\ pending_orders \in FilledTables
    /\ published = <<>>
    /\ filled_inflight = [p \in PosIds |-> 0]
    /\ broker_calls = <<>>
    /\ mon = MonStart
    /\ AuxInit

\* publish('ORDER_FILLED', pl) by any component: the thread started for
\* _handle_order_filled_cleanup runs
OrderFilledDelivered(pl) ==
    /\ (delivered.count > 0 /\ delivered.payload = pl) => delivered.count < MaxDeliveries
    /\ pending_orders' = handle_order_filled_cleanup(pending_orders, pl)
    /\ delivered' = IF delivered.count > 0 /\ delivered.payload = pl
                    THEN [delivered EXCEPT !.count = @ + 1]
                    ELSE [payload |-> pl, before |-> pending_orders,
                          once |-> pending_orders', count |-> 1]
    /\ UNCHANGED <<cfgVars, last_call, risk_in, risk_ret, clock_call, lock_run, monVars, busVars,
                   market_open,
                   approved, pc, payload, held_key, res, snap, adv_lock, exec_owner,
                   positions, trades, published, filled_inflight, broker_calls>>

NextFilled == \E pl \in FilledPayloads : OrderFilledDelivered(pl)

SpecFilled == InitFilled /\ [][NextFilled]_vars

----------------------------------------------------------------------------
(* SpecLocks: the handler threads and the monitor thread seen through the
   locks alone. A runnable thread is run; a thread waiting for a lock gets
   it when the lock is free again and again, which the monitor's sleep of
   at least a second between scans (line 103) provides for the bus lock. *)

LockKeys == {"P1"}

lockFrame == <<cfgVars, market_open, pc, payload, approved, held_key, res, snap,
               positions, trades, pending_orders, published, filled_inflight,
               broker_calls, last_call, risk_in, risk_ret, clock_call, monVars,
               delivered, busVars>>

InitLocks ==
    /\ SIMULATE = FALSE
    /\ credentials = TRUE
    /\ initial_stoploss = 0
    /\ order_timeout_seconds = DefaultTimeout
    /\ market_open = FALSE
    /\ HandlerInit
    /\ AuxInit

\* publish starts a thread for the handler (event_bus.py:34)
LockInvoke(th) ==
    /\ th \notin lock_run.ran
    /\ \E key \in LockKeys : \E path \in EntryPaths(key) \cup ExitPaths(key) :
         lock_run' = [lock_run EXCEPT !.todo[th] = path, !.ran = @ \cup {th}]
    /\ UNCHANGED <<lockFrame, exec_owner, adv_lock>>

\* the monitor publishes ORDER_TIMEOUT (lines 86-90), scan after scan
MonitorPublishes ==
    /\ lock_run.todo[MonitorThread] = <<>>
    /\ lock_run' = [lock_run EXCEPT !.todo[MonitorThread] = publish_ops]
    /\ UNCHANGED <<lockFrame, exec_owner, adv_lock>>

\* the next lock operation of thread th. Acquiring waits for the lock to
\* be free; _acquire_advisory_lock asks once and the handler returns when
\* the answer is no or the database call failed (lines 187-196, 221-223)
LockStep(th) ==
    /\ lock_run.todo[th] # <<>>
    /\ LET o == Head(lock_run.todo[th])
           rest == Tail(lock_run.todo[th])
       IN CASE o.op = "acquire" /\ o.arg = "exec" ->
                 /\ exec_lock_free(exec_owner)
                 /\ exec_owner' = th
                 /\ lock_run' = [lock_run EXCEPT !.todo[th] = rest]
                 /\ UNCHANGED adv_lock
            [] o.op = "acquire" /\ o.arg # "exec" ->
                 /\ lock_run.owner[o.arg] = 0
                 /\ lock_run' = [lock_run EXCEPT !.todo[th] = rest, !.owner[o.arg] = th]
                 /\ UNCHANGED <<exec_owner, adv_lock>>
            [] o.op = "release" /\ o.arg = "exec" ->
                 /\ exec_owner' = 0
                 /\ lock_run' = [lock_run EXCEPT !.todo[th] = rest]
                 /\ UNCHANGED adv_lock
            [] o.op = "release" /\ o.arg # "exec" ->
                 /\ lock_run' = [lock_run EXCEPT !.todo[th] = rest, !.owner[o.arg] = 0]
                 /\ UNCHANGED <<exec_owner, adv_lock>>
            [] o.op = "try_advisory" ->
                 /\ \E db_ok \in BOOLEAN :
                      LET r == acquire_advisory_lock(adv_lock, th, o.arg)
                      IN IF db_ok /\ r.ok
                         THEN /\ adv_lock' = r.locks
                              /\ lock_run' = [lock_run EXCEPT !.todo[th] = rest]
                         ELSE /\ adv_lock' = adv_lock
                              /\ lock_run' = [lock_run EXCEPT !.todo[th] = <<>>]
                 /\ UNCHANGED exec_owner
            [] o.op = "release_advisory" ->
                 /\ adv_lock' = release_advisory_lock(adv_lock, th, o.arg)
                 /\ lock_run' = [lock_run EXCEPT !.todo[th] = rest]
                 /\ UNCHANGED exec_owner
    /\ UNCHANGED lockFrame

NextLocks ==
    \/ \E th \in Handlers : LockInvoke(th)
    \/ MonitorPublishes
    \/ \E th \in LockThreads : LockStep(th)
    \/ \E k \in LockKeys : ConnectionClosed(k)

SpecLocks ==
    /\ InitLocks
    /\ [][NextLocks]_vars
    /\ \A th \in Handlers : SF_vars(LockStep(th))
    /\ WF_vars(LockStep(MonitorThread))

----------------------------------------------------------------------------
(* SpecBus: event_bus.py, one topic. Thread creation is taken to succeed:
   the except at lines 35-36 only sees the interpreter running out of
   threads. *)

MaxSubscribers == 2
MaxPublishes == 2
MaxThreads == MaxSubscribers * MaxPublishes

Callbacks == {"cb1", "cb2"}
BusPayloads == {"ev1", "ev2"}

RemoveFirst(seq, x) ==
    LET i == CHOOSE k \in 1..Len(seq) : seq[k] = x /\ \A m \in 1..(k - 1) : seq[m] # x
    IN SubSeq(seq, 1, i - 1) \o SubSeq(seq, i + 1, Len(seq))

\* threading.Thread(target=_safe_call, args=(cb, payload), daemon=True)
Thread(no, idx, cb, pl) ==
    [no |-> no, idx |-> idx, cb |-> cb, payload |-> pl, state |-> "started"]

busFrame == <<cfgVars, market_open, approved, pc, payload, held_key, res, snap, adv_lock,
              exec_owner, positions, trades, pending_orders, published, filled_inflight,
              broker_calls, last_call, risk_in, risk_ret, clock_call, lock_run, monVars,
              delivered>>

\* subscribe(event, callback)
Subscribe(cb) ==
    /\ Len(subscribers) < MaxSubscribers
    /\ subscribers' = Append(subscribers, cb)
    /\ UNCHANGED <<busFrame, pub, threads>>

\* unsubscribe(event, callback)
Unsubscribe(cb) ==
    /\ subscribers' = IF \E k \in 1..Len(subscribers) : subscribers[k] = cb
                      THEN RemoveFirst(subscribers, cb)
                      ELSE subscribers
    /\ UNCHANGED <<busFrame, pub, threads>>

\* a publish stopping at the first subscriber
after_start_first_only(i, n) == "returned"

\* the for loop at line 32: on to the next subscriber, or out of publish
after_start(i, n) == IF i < n THEN "dispatch" ELSE "returned"

\* a snapshot that keeps one entry per callback
snapshot_distinct(subs) ==
    LET first == SelectSeq([i \in 1..Len(subs) |-> i],
                           LAMBDA i : \A m \in 1..(i - 1) : subs[m] # subs[i])
    IN [k \in 1..Len(first) |-> subs[first[k]]]

\* line 26: list(_subscribers.get(event, [])), a copy of the list as it is
snapshot(subs) == subs

\* publish: the snapshot under _lock and the return when it is empty
PublishEnter(pl) ==
    /\ pub.pc \in {"idle", "returned"}
    /\ pub.no < MaxPublishes
    /\ pub' = [pc |-> IF subscribers = <<>> THEN "returned" ELSE "dispatch",
               no |-> pub.no + 1, subs |-> snapshot(subscribers), i |-> 1,
               payload |-> pl]
    /\ UNCHANGED <<busFrame, subscribers, threads>>

\* publish: one turn of the loop, Thread(...).start()
PublishStart ==
    /\ pub.pc = "dispatch"
    /\ threads' = Append(threads, Thread(pub.no, pub.i, pub.subs[pub.i], pub.payload))
    /\ pub' = [pub EXCEPT !.i = @ + 1, !.pc = after_start(pub.i, Len(pub.subs))]
    /\ UNCHANGED <<busFrame, subscribers>>

ThreadStep(j, from, to) ==
    /\ j \in DOMAIN threads
    /\ threads[j].state = from
    /\ threads' = [threads EXCEPT ![j].state = to]
    /\ UNCHANGED <<busFrame, subscribers, pub>>

\* _safe_call: cb(payload) is entered
ThreadRun(j) == ThreadStep(j, "started", "running")

\* cb(payload) returns
ThreadReturn(j) == ThreadStep(j, "running", "done")

\* cb(payload) raises: _safe_call logs it and the thread ends
ThreadRaise(j) == ThreadStep(j, "running", "logged")

NextBus ==
    \/ \E cb \in Callbacks : Subscribe(cb)
    \/ \E cb \in Callbacks : Unsubscribe(cb)
    \/ \E pl \in BusPayloads : PublishEnter(pl)
    \/ PublishStart
    \/ \E j \in 1..MaxThreads : ThreadRun(j)
    \/ \E j \in 1..MaxThreads : ThreadReturn(j)
    \/ \E j \in 1..MaxThreads : ThreadRaise(j)

InitBus ==
    /\ SIMULATE = TRUE
    /\ credentials = FALSE
    /\ initial_stoploss = 0
    /\ market_open = FALSE
    /\ order_timeout_seconds = DefaultTimeout
    /\ HandlerInit
    /\ AuxInit

\* the publisher keeps running its loop and a started thread gets to run;
\* nothing makes a handler return or raise: one that stays "running" is a
\* handler that never returns
SpecBus ==
    /\ InitBus
    /\ [][NextBus]_vars
    /\ WF_vars(PublishStart)
    /\ \A j \in 1..MaxThreads : WF_vars(ThreadRun(j))

----------------------------------------------------------------------------
(* Properties *)

\* rows of the trades table for pos_id whose status is in the given set
Rows(pos_id, statuses) ==
    {i \in 1..Len(trades) : trades[i].pos_id = pos_id /\ trades[i].status \in statuses}

PlacedStatuses == {"simulated", "sent", "filled"}

\* C1: whatever ENTRY_SIGNALs are published for one pos_id, at most one
\* trade row with status simulated, sent or filled exists for it and the
\* registry holds at most one entry for it.
C1_AtMostOneOrderPerPosId ==
    \A p \in PosIds :
        /\ Cardinality(Rows(p, PlacedStatuses)) <= 1
        /\ Cardinality(DOMAIN positions \cap {p}) <= 1

\* the thread's try-acquire returned true and its finally has not run yet
InLockRegion(t) ==
    pc[t] \in {"e_risk", "e_exec", "e_sim_place", "e_sim_fill", "e_live_place",
               "e_live_fill", "e_release", "x_exec", "x_release",
               "x_fb_close", "x_fb_record", "x_fb_release"}

\* C2: from a handler's successful try-acquire until its release the lock
\* stays held by the session that acquired it, so no two handlers are
\* between acquire and release for the same key at the same time.
C2_AdvisoryLockExcludes ==
    /\ \A t \in Handlers :
         InLockRegion(t) => adv_lock[held_key[t]] = Session("acquire", t)
    /\ \A t1, t2 \in Handlers :
         (t1 # t2 /\ InLockRegion(t1) /\ InLockRegion(t2)) => held_key[t1] # held_key[t2]

\* the thread is inside a `with _exec_lock` block of a handler
InExecSection(t) ==
    pc[t] \in {"e_sim_place", "e_sim_fill", "e_live_place", "e_live_fill", "x_fb_record"}

WaitsForExecLock(t) == pc[t] \in {"e_exec", "x_exec", "x_fb_close"}

\* C3: at most one handler thread of the process is inside an _exec_lock
\* section at any time.
C3_ExecSectionsNeverOverlap ==
    Cardinality({t \in Handlers : InExecSection(t)}) <= 1

\* C3 witness: one handler is inside its section while another has reached
\* its `with _exec_lock` and is kept out.
C3_Witness ==
    \E t1, t2 \in Handlers :
        /\ t1 # t2
        /\ InExecSection(t1)
        /\ exec_owner = t1
        /\ WaitsForExecLock(t2)

\* C4: a handler that has ended holds no advisory lock: the lock its
\* try-acquire took is no longer held by that session.
C4_NoHandlerEndsHoldingLock ==
    \A t \in Handlers :
        pc[t] = "done" => \A k \in PosIds : adv_lock[k] # Session("acquire", t)

C6_DistinctEntriesAllOpen ==
    ( /\ \A t \in Handlers :
            /\ pc[t] = "done"
            /\ payload[t].kind = "ENTRY_SIGNAL"
            /\ payload[t].side = "BUY"
            /\ payload[t].quantity = 1
      /\ \A t1, t2 \in Handlers : t1 # t2 => payload[t1].pos_id # payload[t2].pos_id )
    => /\ Cardinality(DOMAIN positions) = NumHandlers
       /\ Cardinality({i \in 1..Len(trades) : trades[i].status = "simulated"}) = NumHandlers

\* C7: in SIMULATE mode with the market closed, an EXIT_SIGNAL handler that
\* finds its pos_id open removes the position from the registry and
\* appends one trade row with status closed for it.
C7_ExitClosesOpenPosition ==
    [][ \A t \in Handlers :
          ( /\ pc[t] = "x_exec"
            /\ pc'[t] = "x_release"
            /\ payload[t].pos_id \in DOMAIN positions )
          => /\ payload[t].pos_id \notin DOMAIN positions'
             /\ Len(trades') = Len(trades) + 1
             /\ trades'[Len(trades')].status = "closed"
             /\ trades'[Len(trades')].pos_id = payload[t].pos_id ]_vars

\* C8: every position in the registry has quantity > 0 and side BUY or SELL.
C8_OpenPositionsWellFormed ==
    \A p \in DOMAIN positions :
        positions[p].quantity > 0 /\ positions[p].side \in {"BUY", "SELL"}

\* C9: close_position on an open position returns it with status CLOSED and
\* the realized PnL (exit - entry) * qty for BUY, (entry - exit) * qty for
\* SELL, and removes it from the registry; on a pos_id that is not in the
\* registry it returns null and changes nothing; no closed position is ever
\* in the registry.
C9_CloseRealizesAndRemoves ==
    /\ last_call.op = "close" =>
         LET b == last_call.before
             pid == last_call.pos_id
             r == last_call.ret
         IN IF pid \in DOMAIN b
            THEN /\ r.kind = "position"
                 /\ r.pos.status = "CLOSED"
                 /\ r.pos.exit_price = last_call.price
                 /\ r.pos.pnl = IF b[pid].side = "BUY"
                                THEN (last_call.price - b[pid].entry_price) * b[pid].quantity
                                ELSE (b[pid].entry_price - last_call.price) * b[pid].quantity
                 /\ pid \notin DOMAIN positions
                 /\ \A q \in DOMAIN b \ {pid} : q \in DOMAIN positions /\ positions[q] = b[q]
            ELSE /\ r.kind = "none"
                 /\ positions = b
    /\ \A p \in DOMAIN positions : positions[p].status = "OPEN" /\ ~positions[p].closed

\* C9 witness: a SELL position was closed at a price other than its entry.
C9_Witness ==
    /\ last_call.op = "close"
    /\ last_call.pos_id \in DOMAIN last_call.before
    /\ last_call.before[last_call.pos_id].side = "SELL"
    /\ last_call.ret.pos.pnl # 0
    /\ positions = <<>>

\* the three rejection conditions of the risk gate, from the arguments,
\* bot_state and the registry of the call
RiskBreach ==
    LET qty == IF risk_in.confidence.present
               THEN Max(1, TruncDiv(BASE_QTY * risk_in.confidence.quarters, 4))
               ELSE risk_in.requested_qty
        net == NetQty(positions, DOMAIN positions)
        projected == IF risk_in.side \in {"BUY", "buy"} THEN net + qty ELSE net - qty
    IN \/ risk_in.daily_pnl <= -Abs(MAX_DAILY_LOSS)
       \/ risk_in.trade_count >= MAX_TRADES_PER_DAY
       \/ Abs(projected) > MAX_POSITION

\* C10: check_risk returns approved = false whenever the daily loss limit,
\* the trade count limit or the projected net quantity limit is breached,
\* and returns (true, qty) only when none of them is.
C10_RiskGateRejectsOnBreach ==
    risk_ret.called =>
        /\ RiskBreach => ~risk_ret.approved
        /\ risk_ret.approved =>
             /\ ~RiskBreach
             /\ risk_ret.qty = sized_qty(risk_in.requested_qty, risk_in.confidence)

\* C10 witness: with both daily limits respected, a request is rejected
\* for its projected net quantity alone while a position is open.
C10_Witness ==
    /\ risk_ret.called
    /\ ~risk_ret.approved
    /\ risk_in.daily_pnl > -MAX_DAILY_LOSS
    /\ risk_in.trade_count < MAX_TRADES_PER_DAY
    /\ DOMAIN positions # {}
    /\ risk_in.requested_qty <= MAX_POSITION

\* thread t takes the step: every handler action moves its pc
Steps(t) == pc'[t] # pc[t]

\* C11: once check_risk has rejected the ENTRY_SIGNAL of a handler, no step
\* of that handler (the rejection itself and the return through the finally)
\* appends a trade row, publishes an event, calls the broker, opens a
\* position or inserts a pending order.
C11_RiskRejectionChangesNothing ==
    [][ \A t \in Handlers :
          (Steps(t) /\ approved'[t] = "rejected")
          => UNCHANGED <<trades, published, broker_calls, positions, pending_orders>> ]_vars

\* C11 witness: a handler whose positive-quantity entry was rejected while a
\* position was open has returned.
C11_Witness ==
    \E t \in Handlers :
        /\ pc[t] = "done"
        /\ approved[t] = "rejected"
        /\ payload[t].kind = "ENTRY_SIGNAL"
        /\ payload[t].quantity > 0
        /\ DOMAIN positions # {}

\* the events published so far for pos_id with the given topic and status
Events(topic, pos_id, status) ==
    {i \in 1..Len(published) :
        /\ published[i].topic = topic
        /\ published[i].pos_id = pos_id
        /\ published[i].status = status}

\* the handler of an admitted ENTRY_SIGNAL with a positive quantity has left
\* its `with _exec_lock` block
AdmittedEntryPastExec(t) ==
    /\ payload[t].kind = "ENTRY_SIGNAL"
    /\ approved[t] = "approved"
    /\ payload[t].quantity > 0
    /\ pc[t] \in {"e_release", "done"}

\* C12: with SIMULATE on, no order and no cancel is ever sent to the broker
\* by the entry handler, the exit handler (pos_id and security_id paths), the
\* stop-loss placement or the monitor, and an admitted entry is simulated
\* (ORDER_PLACED with status simulated) whether or not credentials are set.
C12_SimulateNeverCallsBroker ==
    SIMULATE =>
        /\ broker_calls = <<>>
        /\ \A t \in Handlers :
             AdmittedEntryPastExec(t) =>
                 Events("ORDER_PLACED", payload[t].pos_id, "simulated") # {}

\* C12 witness: with SIMULATE on and no credentials an entry was simulated,
\* the monitor has timed a pending order out, and an exit by security_id
\* has closed a position.
C12_Witness ==
    /\ SIMULATE
    /\ ~credentials
    /\ \E t \in Handlers : AdmittedEntryPastExec(t)
    /\ \E i \in 1..Len(published) : published[i].topic = "ORDER_TIMEOUT"
    /\ \E i \in 1..Len(trades) : trades[i].status = "closed"

C14_NoSimulatedFillWhileMarketOpen ==
    [][ \A t \in Handlers :
          LET pl == payload[t]
              P == pl.pos_id
          IN /\ (Steps(t) /\ pc[t] = "e_sim_fill" /\ SIMULATE /\ market_open) =>
                   /\ Events("ORDER_PLACED", P, "simulated") # {}
                   /\ P \in DOMAIN pending_orders'
                   /\ positions' = positions
                   /\ published' = published
             /\ (Steps(t) /\ pc[t] = "x_exec" /\ SIMULATE /\ market_open
                   /\ P \in DOMAIN positions) =>
                   /\ Len(trades') = Len(trades) + 1
                   /\ trades'[Len(trades')].status = "simulated"
                   /\ trades'[Len(trades')].pos_id = P
                   /\ published' = Append(published, Event("ORDER_PLACED", P, "simulated"))
                   /\ P \in DOMAIN pending_orders'
                   /\ positions' = positions ]_vars

\* the monitor is handling the entry mon.key it found aged
MonHandling == mon.pc \in {"m_publish", "m_mark", "m_remove"}

\* ORDER_TIMEOUT carrying the pos_id and db_id of the entry in hand is out
TimeoutPublished == \E i \in 1..Len(published) :
                        published[i] = TimeoutEvent(mon.key, mon.meta.db_id)

\* the trade row of the entry in hand, if the insert gave one, is timed_out
TimeoutMarked ==
    mon.meta.db_id # NoId => trades[mon.meta.db_id].status = "timed_out"

TimeoutDeadline ==
    order_timeout(order_timeout_seconds)
    + Max(5, order_timeout(order_timeout_seconds) \div 3)

C17_OrderFilledIdempotent ==
    delivered.count > 0 =>
        LET key == order_filled_key(delivered.payload)
        IN /\ pending_orders = delivered.once
           /\ key \notin DOMAIN pending_orders
           /\ \A k \in DOMAIN delivered.before \ {key} :
                  k \in DOMAIN pending_orders /\ pending_orders[k] = delivered.before[k]
           /\ key \notin DOMAIN delivered.before => pending_orders = delivered.before

\* C17 witness: the same ORDER_FILLED was delivered twice for a pos_id that
\* had an entry, and another order is still pending.
C17_Witness ==
    /\ delivered.count = 2
    /\ order_filled_key(delivered.payload) \in DOMAIN delivered.before
    /\ DOMAIN pending_orders # {}


Dispatched(no, i, cb, pl, states) ==
    \E j \in DOMAIN threads :
        /\ threads[j].no = no /\ threads[j].idx = i
        /\ threads[j].cb = cb /\ threads[j].payload = pl
        /\ threads[j].state \in states

HasRow(db_id, statuses) ==
    \E i \in 1..Len(trades) : trades[i].id = db_id /\ trades[i].status \in statuses

\* C19: every entry of the pending table has a trades row, the one its
\* db_id names, whose status is sent or simulated.
C19_PendingHasSentOrSimulatedRow ==
    \A k \in DOMAIN pending_orders :
        /\ pending_orders[k].db_id # NoId
        /\ HasRow(pending_orders[k].db_id, {"sent", "simulated"})


EntryRowFor(pos_id, statuses) ==
    \E i \in 1..Len(trades) : trades[i].pos_id = pos_id /\ trades[i].status \in statuses

\* C20: every OPEN position of the store has a trades row for its pos_id
\* whose status is simulated, sent or filled.
C20_OpenPositionHasEntryRow ==
    \A p \in DOMAIN positions :
        positions[p].status = "OPEN" => EntryRowFor(p, {"simulated", "sent", "filled"})


\* C21: the trades table only grows, its ids strictly increase, and a row
\* once written keeps every field, except that its status may become
\* timed_out: rejected, failed and closed are written as new rows.
C21_JournalAppendOnly ==
    [][/\ Len(trades') >= Len(trades)
       /\ \A i \in 1..Len(trades) :
              \/ trades'[i] = trades[i]
              \/ trades'[i] = [trades[i] EXCEPT !.status = "timed_out"]
       /\ \A i, j \in 1..Len(trades') : i < j => trades'[i].id < trades'[j].id]_vars

\* C21 witness: a row was marked timed_out and a later row records the
\* close of the same position.
C21_Witness ==
    \E i, j \in 1..Len(trades) :
        /\ i < j
        /\ trades[i].status = "timed_out"
        /\ trades[j].status = "closed"
        /\ trades[j].pos_id = trades[i].pos_id


\* the order state of a pos_id as the journal, the events and the pending
\* table show it
LastStatus(tr, pos_id) ==
    LET rows == {i \in 1..Len(tr) : tr[i].pos_id = pos_id}
    IN IF rows = {} THEN None
       ELSE tr[CHOOSE i \in rows : \A j \in rows : j <= i].status

TerminalStatuses == {"closed", "rejected", "failed", "timed_out"}

EntryIsFilled(pos_id) ==
    /\ \E i \in 1..Len(published) :
           published[i].topic = "ORDER_FILLED" /\ published[i].pos_id = pos_id
    /\ pos_id \notin DOMAIN pending_orders
    /\ LastStatus(trades, pos_id) \notin TerminalStatuses

\* C22: a position is closed (an EXIT_SIGNAL is acted on) only while the
\* entry of its pos_id is FILLED: ORDER_FILLED was published, no order of the
\* pos_id is pending and none has ended; and once the last row of a pos_id
\* is closed, rejected, failed or timed_out no further row is written for it.
C22_OrderStateMachine ==
    [][\A p \in PosIds :
          /\ (p \in DOMAIN positions /\ p \notin DOMAIN positions') => EntryIsFilled(p)
          /\ LastStatus(trades, p) \in TerminalStatuses =>
                 LastStatus(trades', p) = LastStatus(trades, p)]_vars


\* C23: open_position called with a side other than BUY/SELL or with a
\* quantity <= 0 returns null, raises nothing and leaves the registry as it
\* was.
C23_OpenRejectsBadSideOrQty ==
    (last_call.op = "open" /\ (~ValidSide(last_call.side) \/ last_call.quantity <= 0)) =>
        (last_call.ret.kind = "none" /\ positions = last_call.before)


\* the step of handler t in which it calls open_position
CallsOpenPosition(t) ==
    /\ pc'[t] # pc[t]
    /\ \/ pc[t] = "e_sim_fill" /\ ~market_open
       \/ pc[t] = "e_live_place" /\ pc'[t] = "e_live_fill"

\* C24: when open_position turns an entry down because a position is open,
\* the step that made the call appends no trade row, publishes no
\* ORDER_PLACED or ORDER_FILLED, sends no broker order and inserts no pending
\* order.
C24_SinglePositionRejectionChangesNothing ==
    [][\A t \in Handlers :
          (CallsOpenPosition(t) /\ DOMAIN positions # {}) =>
              /\ trades' = trades
              /\ published' = published
              /\ broker_calls' = broker_calls
              /\ pending_orders' = pending_orders]_vars


EntryRejected(t) ==
    pc[t] = "e_live_place" /\ pc'[t] = "e_release" /\ res'[t] # None
        /\ rejected_response(res'[t])
EntryPlaceRaised(t) ==
    pc[t] = "e_live_place" /\ pc'[t] = "e_release" /\ res'[t] = None

\* the journal grew by exactly one row, with the given status
OneRowAppended(status) ==
    /\ Len(trades') = Len(trades) + 1
    /\ SubSeq(trades', 1, Len(trades)) = trades
    /\ trades'[Len(trades')].status = status

\* C26: a live entry the broker answers with rejected/failed appends exactly
\* one row with status rejected, and one on which place_order raises appends
\* a row with status failed; in both cases no ORDER_PLACED is published, no
\* position is opened and no pending order is created.
C26_BrokerFailureJournaled ==
    [][ \A t \in Handlers :
          /\ EntryRejected(t) => OneRowAppended("rejected")
          /\ EntryPlaceRaised(t) => OneRowAppended("failed")
          /\ (EntryRejected(t) \/ EntryPlaceRaised(t)) =>
                UNCHANGED <<published, positions, pending_orders>> ]_vars


\* the fill indicators of a response: a status among filled, complete and
\* filled_with_trade (in any case), or a filled quantity together with an
\* average price
FillIndicated(resp) ==
    \/ Lower(Response(resp).status) \in {"filled", "complete", "filled_with_trade"}
    \/ Response(resp).filled_quantity > 0 /\ Response(resp).avg_price > 0

\* C27: in the step that follows an accepted live entry order, the handler
\* publishes ORDER_FILLED for the position and removes its pending entry
\* when the response indicates a fill; otherwise it publishes nothing and
\* leaves the pending table as it is.
C27_ImmediateFillDetection ==
    [][ \A t \in Handlers :
          (pc[t] = "e_live_fill" /\ Steps(t)) =>
              IF FillIndicated(res[t])
              THEN /\ published' = Append(published,
                                          Event("ORDER_FILLED", payload[t].pos_id, "filled"))
                   /\ payload[t].pos_id \notin DOMAIN pending_orders'
              ELSE /\ published' = published
                   /\ pending_orders' = pending_orders ]_vars

\* C27 witness: one accepted order was filled on the strength of quantity and
\* price alone (status open) and its pending entry is gone, while another,
\* answered with a quantity but no price, is still pending with no
\* ORDER_FILLED published for it.
C27_Witness ==
    \E t, u \in Handlers :
        /\ pc[t] = "done" /\ res[t] = "open_qty_price"
        /\ payload[t].pos_id \notin DOMAIN pending_orders
        /\ Events("ORDER_FILLED", payload[t].pos_id, "filled") # {}
        /\ pc[u] = "done" /\ res[u] = "open_qty"
        /\ payload[u].pos_id \in DOMAIN pending_orders
        /\ Events("ORDER_FILLED", payload[u].pos_id, "filled") = {}


\* C28: in live mode (credentials set) the EXIT_SIGNAL handler that finds
\* its pos_id OPEN places the reverse MARKET order and ends in one of three
\* ways: the response reports the fill, the position is removed, the last
\* row appended is closed and no pending entry is left; the broker rejects,
\* one rejected row is appended and the position and the pending table stay
\* as they are; or one sent row is appended, ORDER_PLACED is published, a
\* pending entry is recorded and the position stays OPEN.
C28_LiveExitFollowsBroker ==
    [][ \A t \in Handlers :
          ( /\ pc[t] = "x_exec"
            /\ pc'[t] = "x_release"
            /\ ~SIMULATE /\ credentials
            /\ payload[t].pos_id \in DOMAIN positions )
          => LET pid == payload[t].pos_id
             IN /\ broker_calls' = Append(broker_calls,
                       BrokerCall(pid, "MARKET", Reverse(positions[pid].side),
                                  positions[pid].quantity))
                /\ \/ /\ pid \notin DOMAIN positions'
                      /\ Len(trades') > Len(trades)
                      /\ trades'[Len(trades')].status = "closed"
                      /\ pid \notin DOMAIN pending_orders'
                   \/ /\ OneRowAppended("rejected")
                      /\ UNCHANGED <<positions, pending_orders, published>>
                   \/ /\ OneRowAppended("sent")
                      /\ published' = Append(published, Event("ORDER_PLACED", pid, "sent"))
                      /\ pid \in DOMAIN pending_orders'
                      /\ positions' = positions ]_vars


\* C29: the security_id fallback treats the candidate it locked as the exit
\* by pos_id would: in live mode its close step places the reverse MARKET
\* order, and the position leaves the registry only with the fill; in
\* SIMULATE mode with the market open the position stays OPEN; in SIMULATE
\* mode with the market closed the position is removed. Whatever the mode,
\* no position other than the locked candidate changes.
C29_FallbackSameCloseLogic ==
    [][ \A t \in Handlers :
          (pc[t] = "x_fb_close" /\ Steps(t)) =>
              LET pid == snap[t].pid
              IN /\ IF ~SIMULATE
                    THEN /\ broker_calls' = Append(broker_calls,
                                BrokerCall(pid, "MARKET", Reverse(snap[t].side),
                                           snap[t].quantity))
                         /\ pid \notin DOMAIN positions' =>
                                pid \notin DOMAIN pending_orders'
                    ELSE IF market_open
                    THEN positions' = positions
                    ELSE pid \notin DOMAIN positions'
                 /\ \A q \in DOMAIN positions \ {pid} :
                        q \in DOMAIN positions' /\ positions'[q] = positions[q] ]_vars


\* C30: the entry the monitor removes from the pending table is as old as
\* the timeout: an entry written under the same pos_id after the snapshot
\* was taken, and younger than the timeout, is left in the table.
C30_MonitorRemovesOnlyAgedOrders ==
    [][ (mon.pc = "m_remove" /\ mon'.pc # "m_remove") =>
           \A k \in DOMAIN pending_orders \ DOMAIN pending_orders' :
               pending_orders[k].age >= order_timeout(order_timeout_seconds) ]_vars


\* the callbacks of the threads publish number `no` started, in start order
StartedFor(no) ==
    LET mine == SelectSeq(threads, LAMBDA th : th.no = no)
    IN [k \in 1..Len(mine) |-> mine[k].cb]

ExchangeSecondOfWeek(now) ==
    (now.weekday * DaySeconds + now.second + IstShift) % (7 * DaySeconds)

\* the instant lies on Monday..Friday within [09:15, 15:30] of the
\* exchange's wall clock
InTradingHours(now) ==
    \E d \in 0..4 :
        LET open == d * DaySeconds + SessionStart
            close == d * DaySeconds + SessionEnd
            w == ExchangeSecondOfWeek(now)
        IN /\ open <= w
           /\ w < close \/ (w = close /\ ~now.late)

\* C32: is_market_open answers true exactly for the instants that, shifted
\* by +05:30, fall on Monday..Friday with the time of day in [09:15, 15:30].
C32_MarketOpenExactlyInTradingHours ==
    clock_call.called => (clock_call.ret <=> InTradingHours(clock_call.now))

\* C32 witness: called at Friday 10:00:00 UTC exactly, which is 15:30:00 at
\* the exchange, the last open instant of the week, the answer is true.
C32_Witness ==
    /\ clock_call.called
    /\ clock_call.now = Instant(4, 10 * 3600, FALSE)
    /\ clock_call.ret


\* row i is an entry order that was placed and is neither timed out (its
\* status would be timed_out) nor closed (no later closed row for its pos_id)
PlacedAndLive(i) ==
    /\ trades[i].status \in {"sent", "simulated"}
    /\ ~\E j \in (i + 1)..Len(trades) :
           trades[j].status = "closed" /\ trades[j].pos_id = trades[i].pos_id

RECURSIVE NetPlacedUpTo(_)
\* the signed quantity (BUY +, SELL -) of the placed, live rows among the
\* first n rows of the journal
NetPlacedUpTo(n) ==
    IF n = 0 THEN 0
    ELSE NetPlacedUpTo(n - 1)
         + (IF ~PlacedAndLive(n) THEN 0
            ELSE IF Upper(trades[n].side) = "BUY" THEN trades[n].quantity
            ELSE -trades[n].quantity)

\* C33: the absolute net quantity of the entry orders placed (journaled sent
\* or simulated) and not yet closed or timed out never exceeds MAX_POSITION.
C33_PlacedExposureWithinLimit ==
    Abs(NetPlacedUpTo(Len(trades))) <= MAX_POSITION


\* ORDER_TIMEOUT was published for the order of row i and the row is marked
TimedOutOrder(i) ==
    /\ trades[i].status = "timed_out"
    /\ \E e \in 1..Len(published) :
           published[e] = TimeoutEvent(trades[i].pos_id, trades[i].id)

\* ORDER_FILLED was published for the pos_id of row i, the only order ever
\* journaled for that pos_id
FilledOrder(i) ==
    /\ \E e \in 1..Len(published) :
           published[e].topic = "ORDER_FILLED" /\ published[e].pos_id = trades[i].pos_id
    /\ \A j \in 1..Len(trades) : trades[j].pos_id = trades[i].pos_id => j = i

\* C34: no order is both filled and timed out: there is no row whose order
\* had ORDER_FILLED published for it and also ORDER_TIMEOUT, with the row
\* marked timed_out.
C34_NeverFilledAndTimedOut ==
    \A i \in 1..Len(trades) : ~(FilledOrder(i) /\ TimedOutOrder(i))


\* the pending entry of pos_id belongs to an order for which no ORDER_FILLED
\* was published: its ORDER_PLACED is later than every ORDER_FILLED of pos_id
PlacedAfterLastFill(pos_id) ==
    \E i \in 1..Len(published) :
        /\ published[i].topic = "ORDER_PLACED" /\ published[i].pos_id = pos_id
        /\ \A j \in (i + 1)..Len(published) :
               ~(published[j].topic = "ORDER_FILLED" /\ published[j].pos_id = pos_id)

\* C35: the ORDER_FILLED handler removes a pending entry only when it is the
\* entry of the order the event is about: run for an earlier order of the
\* pos_id, it leaves alone the entry of an order placed since, for which no
\* ORDER_FILLED was published.
C35_FilledRemovesOnlyItsOwnOrder ==
    [][ \A p \in PosIds :
          ( /\ filled_inflight'[p] < filled_inflight[p]
            /\ p \in DOMAIN pending_orders
            /\ PlacedAfterLastFill(p) )
          => /\ p \in DOMAIN pending_orders'
             /\ pending_orders'[p] = pending_orders[p] ]_vars


\* the side of the first order journaled for pos_id, its entry
EntrySideOf(pos_id) ==
    trades[CHOOSE i \in Rows(pos_id, {"sent", "simulated", "timed_out", "closed"}) :
               \A j \in Rows(pos_id, {"sent", "simulated", "timed_out", "closed"}) : i <= j].side

\* the reverse MARKET orders sent to the broker for pos_id
ReverseOrders(pos_id) ==
    {i \in 1..Len(broker_calls) :
        /\ broker_calls[i].pos_id = pos_id
        /\ broker_calls[i].order_type = "MARKET"
        /\ broker_calls[i].side = Reverse(EntrySideOf(pos_id))}

C37_MonitorLeavesPositions ==
    [][mon' # mon => positions' = positions]_vars

\* C37 witness: in live mode the entry order of P1 was timed out by the
\* monitor (row timed_out, ORDER_TIMEOUT published, entry removed) and the
\* position registered at its placement is still OPEN.
C37_Witness ==
    /\ ~SIMULATE
    /\ Rows("P1", {"timed_out"}) # {}
    /\ Events("ORDER_TIMEOUT", "P1", "timed_out") # {}
    /\ "P1" \notin DOMAIN pending_orders
    /\ mon.pc = "m_iter"
    /\ "P1" \in DOMAIN positions
    /\ positions["P1"].status = "OPEN"


\* a run of the ORDER_FILLED handler ends in this step
FilledHandled ==
    \E p \in PosIds : filled_inflight'[p] < filled_inflight[p]

C39_InvalidSidePlacesNoOrder ==
    /\ [](/\ \A i \in 1..Len(trades) :
                trades[i].status \in {"simulated", "sent"} => ValidSide(trades[i].side)
          /\ \A i \in 1..Len(broker_calls) : ValidSide(broker_calls[i].side)
          /\ \A p \in DOMAIN pending_orders : ValidSide(pending_orders[p].side))
    /\ [][\A t \in Handlers :
             (payload[t].kind = "ENTRY_SIGNAL" /\ ~ValidSide(payload[t].side) /\ Steps(t))
                 => published' = published]_vars


\* the thread that holds lock l, or 0
LockHolder(l) == IF l = "exec" THEN exec_owner ELSE lock_run.owner[l]

\* the thread th is waiting for, or 0: the holder of the lock its next
\* operation acquires
WaitedFor(th) ==
    IF lock_run.todo[th] = <<>> THEN 0
    ELSE LET o == Head(lock_run.todo[th])
         IN IF o.op = "acquire" /\ LockHolder(o.arg) # th THEN LockHolder(o.arg) ELSE 0

RECURSIVE WaitChainReturns(_, _, _)
WaitChainReturns(start, cur, n) ==
    IF n = 0 \/ WaitedFor(cur) = 0 THEN FALSE
    ELSE IF WaitedFor(cur) = start THEN TRUE
    ELSE WaitChainReturns(start, WaitedFor(cur), n - 1)

\* C40: every handler invocation comes to its end; a handler at its end
\* holds none of _exec_lock, the registry lock and the bus lock; and no
\* thread waits for a lock in a cycle of waiting threads.
C40_HandlersTerminate ==
    /\ \A th \in Handlers : (lock_run.todo[th] # <<>>) ~> (lock_run.todo[th] = <<>>)
    /\ [](\A th \in Handlers :
             lock_run.todo[th] = <<>> =>
                 /\ exec_owner # th
                 /\ \A l \in InnerLocks : lock_run.owner[l] # th)
    /\ [](\A th \in LockThreads :
             ~WaitChainReturns(th, th, Cardinality(LockThreads)))

\* C40 witness: one handler waits for _exec_lock, held by the other, which
\* waits for the bus lock, held by the monitor inside publish, while the
\* advisory lock of P1 is held by a session.
C40_Witness ==
    /\ WaitedFor(1) = 2
    /\ WaitedFor(2) = MonitorThread
    /\ adv_lock["P1"] # NoSession

====
